---- MODULE Spec2Model ----
(***************************************************************************)
(* Blink detectors of the eye blink tracker.                               *)
(*                                                                         *)
(* The application owns exactly one detector (app_opencv.py:35-41): the    *)
(* EAR detector BlinkDetectorMediaPipe or the presence detector            *)
(* BlinkDetectorOpenCV.  `variant' records which one was constructed; the  *)
(* fields the two classes share by name (is_paused, is_detecting,          *)
(* total_blinks, CONSECUTIVE_FRAMES, session_start_time, last_blink_time)  *)
(* are one variable each.                                                  *)
(*                                                                         *)
(* Units.  EAR values are integers in thousandths (0.25 is 250).  The raw  *)
(* per-frame EAR values offered are multiples of 6, so that the mean of a  *)
(* smoothing window of 1, 2 or 3 of them is again an integer.  A baseline  *)
(* (the mean of up to 30 smoothed values) and the threshold derived from   *)
(* it are exact rationals [num, den] with den > 0, compared by cross       *)
(* multiplication.  Floating point rounding is not modelled.               *)
(*                                                                         *)
(* Time.  Times are integer milliseconds.  The code reads the clock and    *)
(* only ever subtracts a stored timestamp from the reading, so timestamps  *)
(* are held relative to the present: the clock reads Now = 0, and when     *)
(* gap ms pass every stored timestamp moves gap ms into the past           *)
(* (Elapse).  A stored timestamp t stands for the instant -t ms ago.       *)
(***************************************************************************)
EXTENDS Integers, Sequences, FiniteSets, TLC

\* ------------------------------------------------------------------ bounds

\* Number of calls (frames, lifecycle calls, setters) explored from
\* construction.
MaxCalls == 4

\* Number of direct calls of a helper explored in SpecUnits.
MaxUnitCalls == 3

\* Number of calls explored in SpecSession, reads of the statistics
\* included.
MaxSessionCalls == 5

\* Number of blinks registered and statistics reads begun in SpecSnapshot.
MaxSnapshotSteps == 4

\* Number of tracking threads start_tracking may spawn in SpecTracking.
MaxTrackingThreads == 2

\* Number of tracking threads start_tracking may spawn in SpecLoop.
MaxLoopSessions == 1

\* Number of calls of the health monitor explored in SpecHealth.
MaxHealthCalls == 3

\* Number of analyze_blink_pattern calls explored in SpecAnalyze.
MaxAnalyzeCalls == 2

\* Number of steps (calls begun, clock readings apart) explored in SpecGate.
MaxGateSteps == 4

\* --------------------------------------------------------- program constants

MIN_BLINK_DURATION == 30
MAX_BLINK_DURATION == 500
EAR_DROP_THRESHOLD == 80
GLASSES_EAR_DROP == 60
ear_history_size == 3
baseline_history_size == 30
ThresholdFloor == 150
ThresholdCeiling == 300
DefaultEarThreshold == 250
DefaultConsecutiveFramesMP == 1
DefaultConsecutiveFramesCV == 2
DefaultBlinkThreshold == 3
VERY_LOW_THRESHOLD == 8
LOW_THRESHOLD == 12
HIGH_THRESHOLD == 20
VERY_HIGH_THRESHOLD == 30
NORMAL_BLINK_RATE_min == 12
NORMAL_BLINK_RATE_max == 20
LONG_BREAK_INTERVAL == 60
MaxFailedFrames == 30
MAX_CONTINUOUS_WORK == 120
alert_cooldown == 300
NeverFiredDefault == 0

\* ------------------------------------------------------------------ inputs

\* Python's None, and a present value x
None == <<>>
Some(x) == <<x>>
Val(o) == o[1]

\* Raw frame-level EAR values (thousandths, multiples of 6).
EarValues == {150, 498}

\* Milliseconds between one process_frame call and the next.
FrameGaps == {10, 30, 150, 500, 600}

\* Arguments offered to set_consecutive_frames.
FrameCountArgs == {1, 2}

\* Arguments offered to set_threshold (thousandths).
ThresholdArgs == {250, 200}

\* What the landmark extractor makes of a frame: frame is None, no face
\* found, or a face with landmarks.
FrameKinds == {"none", "noface", "face"}

\* What process_frame of the presence detector is given: a frame, or no
\* frame with the camera's read succeeding or failing.
CVFrameKinds == {"frame", "none_read_ok", "none_read_fail"}

\* What the landmark extractor makes of a frame in SpecSession: a face, or
\* an exception raised by cv2.cvtColor or FaceMesh.process.
SessionFrameKinds == {"face", "raises"}

\* What the presence detector makes of a frame in SpecSession: the cascades
\* run, or one of them raises inside detect_eyes.
SessionCVFrameKinds == {"frame", "detect_raises"}

\* Milliseconds between one process_frame call and the next in SpecSession.
SessionFrameGaps == {150}

\* Milliseconds between the previous call and a get_stats call.
StatsGaps == {400, 1000}

\* The consecutive-frames setting in force when SpecSession begins: 1, the
\* default of the EAR detector, set for the presence detector through the
\* settings route.
SessionConsecutiveFrames == 1

\* Values of consecutive_frames given to the constructor of the presence
\* detector, which stores what it is given: none, the default and one.
ConstructorFrameArgs == {0, 1, 2}

\* Cameras passed to start_detection.
CameraArgs == {Some("cam")}

\* Arguments offered to the frame-count setters when their validation is
\* examined: below, at the ends of, inside and above [1, 10].
SettingFrameArgs == {0, 1, 2, 10, 11}

\* Arguments offered to the threshold setters when their validation is
\* examined (thousandths): the ends of (0, 1), two values inside, one above.
SettingThresholdArgs == {0, 200, 250, 1000, 1500}

\* Blink rates offered to analyze_blink_pattern (blinks per minute): none,
\* and each side of every boundary of the cascade.
BpmValues == {0, 5, 7, 8, 11, 12, 16, 20, 21, 30, 31}

\* Session durations offered to analyze_blink_pattern (seconds): each side
\* of the 60 and 120 minute boundaries.
DurationValues == {60, 3599, 3600, 4000, 7199, 7200}

\* What get_stats reports to a health check: <<blinks per minute, session
\* duration in seconds>>.
CheckStats == {<<5, 60>>, <<16, 60>>, <<16, 4000>>}

\* Alert tags passed to should_show_alert.
AlertTags == {"critical", "warning"}

\* Seconds between one reading of the clock and the next; 30 is the
\* interval between two health checks.
ClockGaps == {10, 30, 291, 300}

\* What becomes of an insight handed to the notifier: the notification is
\* shown, the notifier is disabled (plyer missing), or notify raises.
NotifierOutcomes == {"shown", "disabled", "failed"}

\* What the clock (time.time) reads when the monitor is constructed: a
\* machine whose clock was started from zero, and one whose clock was set.
SetClock == 1000
StartClocks == {100, SetClock}

\* The threads running a tracking loop at the same time.
Threads == {1, 2}

\* Landmark pairs offered to calculate_ear (pixels), chosen so that every
\* distance is a whole number: a pair collapsed onto one point, a pair 3
\* apart vertically, and a pair 5 apart on a slant.
VerticalPairs == {<<<<2, 1>>, <<2, 1>>>>, <<<<2, 2>>, <<2, -1>>>>,
                  <<<<1, 3>>, <<4, -1>>>>}

\* The eye corners (points 0 and 3): on one point, 8 apart on a level, and
\* 10 apart on a slant.
CornerPairs == {<<<<0, 0>>, <<0, 0>>>>, <<<<0, 0>>, <<8, 0>>>>,
                <<<<0, 0>>, <<6, 8>>>>}

\* The six landmark points p0..p5 of an eye, as eye_landmarks[0..5].
EyeLandmarks ==
    {<<c[1], v[1], w[1], c[2], w[2], v[2]>> :
        c \in CornerPairs, v \in VerticalPairs, w \in VerticalPairs}

\* Arguments offered to update_baseline when it is called directly
\* (thousandths): below, at and just above either static threshold, a usual
\* open-eye value, and an outlier of 1.0.
BaselineSamples == {198, 210, 250, 252, 390, 1000}

\* A baseline window one short of full, and a smoothing window one short of
\* full, as left by earlier frames.
PrefilledBaseline == [i \in 1..(baseline_history_size - 1) |-> 390]
PrefilledEar == <<300, 150>>

\* ------------------------------------------------------------------ helpers

RECURSIVE Sum(_)
Sum(s) == IF s = <<>> THEN 0 ELSE Head(s) + Sum(Tail(s))

Rat(n, d) == [num |-> n, den |-> d]

\* a < b and a = b for rationals with positive denominators
RatLess(a, b) == a.num * b.den < b.num * a.den
RatEq(a, b) == a.num * b.den = b.num * a.den

\* max(0.15, min(0.30, x))
Clamp(x) ==
    LET lo == Rat(ThresholdFloor, 1)
        hi == Rat(ThresholdCeiling, 1)
        m  == IF RatLess(x, hi) THEN x ELSE hi
    IN  IF RatLess(lo, m) THEN m ELSE lo

\* the reading of the clock
Now == 0

\* a stored timestamp after gap ms have passed
Elapse(t, gap) == IF t = None THEN None ELSE Some(Val(t) - gap)

VARIABLES
    variant,                 \* "mediapipe" or "opencv"
    ncalls,                  \* calls made so far (bounds the run)
    EAR_THRESHOLD,
    CONSECUTIVE_FRAMES,
    GLASSES_MODE,
    use_adaptive_threshold,
    blink_counter,
    total_blinks,
    frame_counter,
    open_frame_counter,
    eyes_closed,
    eyes_closed_start_time,
    last_blink_time,
    ear_history,
    baseline_ear,
    baseline_history,
    current_ear,
    session_id,
    is_paused,
    is_detecting,
    session_start_time,
    frames_without_eyes,
    frames_with_eyes,
    prev_eye_detected,
    camera,
    stats,
    BLINK_THRESHOLD,
    db_blinks,               \* rows of the blinks table
    db_sessions,             \* rows of the sessions table
    not_visible_run,         \* ghost: processed frames without eyes in a row
    registering,             \* tracking thread: how far into counting a blink
    reading,                 \* status thread: what get_stats has read so far
    is_tracking,             \* EyeBlinkTrackerApp.is_tracking
    active_camera,           \* CameraManager.active_camera
    tracking_thread,         \* EyeBlinkTrackerApp.tracking_thread
    control,                 \* the caller of start_tracking / stop_tracking
    loop,                    \* per tracking thread: where _tracking_loop is
    health_clock,            \* time.time(), seconds
    last_alert_time,         \* HealthInsightsMonitor.last_alert_time
    notifications,           \* insights handed to the notifier, in order
    checking,                \* per thread: the health check it is in
    ret,                     \* what the last call returned
    last_op                  \* the last call made and what it saw

\* the blink automaton of the EAR detector
automaton == <<eyes_closed, eyes_closed_start_time, frame_counter>>

\* the smoothing and baseline windows
windows == <<ear_history, baseline_history, baseline_ear>>

mpconfig == <<EAR_THRESHOLD, GLASSES_MODE, use_adaptive_threshold>>

mpvars == <<mpconfig, automaton, windows, blink_counter, open_frame_counter,
            current_ear, session_id>>

\* the EAR detector's fields other than blink_counter
mpvars_but_counter == <<mpconfig, automaton, windows, open_frame_counter,
                        current_ear, session_id>>

cvvars == <<frames_without_eyes, frames_with_eyes, prev_eye_detected, camera,
            stats, BLINK_THRESHOLD>>

timestamps == <<eyes_closed_start_time, last_blink_time, session_start_time>>

\* the application: its flags, the camera manager and its threads
appvars == <<is_tracking, active_camera, tracking_thread, control, loop>>

\* where the tracking thread and the status thread are
threadvars == <<registering, reading, appvars>>

\* the identities of the tracking threads, in the order they are spawned
LoopIds == 1..MaxTrackingThreads

\* the health monitor, its clock and its notifier
healthvars == <<health_clock, last_alert_time, notifications, checking>>

\* the detector
detectorvars == <<variant, mpvars, cvvars, CONSECUTIVE_FRAMES, total_blinks,
                  last_blink_time, is_paused, is_detecting,
                  session_start_time, db_blinks, db_sessions,
                  not_visible_run, registering, reading, appvars>>

vars == <<variant, ncalls, mpvars, cvvars, CONSECUTIVE_FRAMES, total_blinks,
          last_blink_time, is_paused, is_detecting, session_start_time,
          db_blinks, db_sessions, not_visible_run, registering, reading,
          appvars, healthvars, ret, last_op>>

\* ------------------------------------------------- BlinkDetectorMediaPipe

\* np.linalg.norm of the difference of two points, for the points of
\* EyeLandmarks (whose distances are whole numbers)
norm(p, q) ==
    LET squared == (p[1] - q[1]) * (p[1] - q[1]) + (p[2] - q[2]) * (p[2] - q[2])
    IN  CHOOSE n \in 0..squared : n * n = squared

\* calculate_ear without the test for h == 0: the division by a zero
\* float yields inf or nan, shown as a ratio with denominator 0
calculate_ear_NoGuard(eye_landmarks) ==
    LET v1 == norm(eye_landmarks[2], eye_landmarks[6])
        v2 == norm(eye_landmarks[3], eye_landmarks[5])
        h  == norm(eye_landmarks[1], eye_landmarks[4])
    IN  Rat(v1 + v2, 2 * h)

\* calculate_ear: the eye aspect ratio of six landmark points, as a ratio
\* (eye_landmarks[i] of the code is eye_landmarks[i + 1] here)
calculate_ear(eye_landmarks) ==
    LET v1 == norm(eye_landmarks[2], eye_landmarks[6])
        v2 == norm(eye_landmarks[3], eye_landmarks[5])
        h  == norm(eye_landmarks[1], eye_landmarks[4])
    IN  IF h = 0 THEN Rat(0, 1) ELSE Rat(v1 + v2, 2 * h)

\* smooth_ear without the eviction of the oldest value
smooth_ear_NoEviction(history, ear) ==
    LET appended == Append(history, ear)
    IN  [history |-> appended, result |-> Sum(appended) \div Len(appended)]

\* smooth_ear: the window after the call and the value returned
smooth_ear(history, ear) ==
    LET appended == Append(history, ear)
        kept == IF Len(appended) > ear_history_size THEN Tail(appended)
                ELSE appended
    IN  [history |-> kept, result |-> Sum(kept) \div Len(kept)]

\* update_baseline sampling at the static threshold too (>= for >)
update_baseline_AtThreshold(history, baseline, ear, adaptive, static) ==
    IF ~adaptive
    THEN [history |-> history, baseline |-> baseline, sampled |-> FALSE]
    ELSE IF ear >= static
         THEN LET appended == Append(history, ear)
                  kept == IF Len(appended) > baseline_history_size
                          THEN Tail(appended) ELSE appended
              IN  [history |-> kept,
                   baseline |-> Rat(Sum(kept), Len(kept)),
                   sampled |-> TRUE]
         ELSE [history |-> history, baseline |-> baseline, sampled |-> FALSE]

\* update_baseline: the window and baseline after the call
update_baseline(history, baseline, ear, adaptive, static) ==
    IF ~adaptive
    THEN [history |-> history, baseline |-> baseline, sampled |-> FALSE]
    ELSE IF ear > static
         THEN LET appended == Append(history, ear)
                  kept == IF Len(appended) > baseline_history_size
                          THEN Tail(appended) ELSE appended
              IN  [history |-> kept,
                   baseline |-> IF Len(kept) > 0
                                THEN Rat(Sum(kept), Len(kept)) ELSE baseline,
                   sampled |-> TRUE]
         ELSE [history |-> history, baseline |-> baseline, sampled |-> FALSE]

\* get_adaptive_threshold without the upper clamp
get_adaptive_threshold_NoCeiling(adaptive, baseline, static, glasses) ==
    IF ~adaptive \/ baseline.num = 0 THEN Rat(static, 1)
    ELSE LET drop_threshold == IF glasses THEN GLASSES_EAR_DROP
                               ELSE EAR_DROP_THRESHOLD
             x == Rat(baseline.num - drop_threshold * baseline.den,
                      baseline.den)
         IN  IF RatLess(Rat(ThresholdFloor, 1), x) THEN x
             ELSE Rat(ThresholdFloor, 1)

\* get_adaptive_threshold
get_adaptive_threshold(adaptive, baseline, static, glasses) ==
    IF ~adaptive \/ baseline.num = 0 THEN Rat(static, 1)
    ELSE LET drop_threshold == IF glasses THEN GLASSES_EAR_DROP
                               ELSE EAR_DROP_THRESHOLD
         IN  Clamp(Rat(baseline.num - drop_threshold * baseline.den,
                       baseline.den))

\* the validity test with the upper bound exclusive
ValidBlink_StrictMax(blink_duration, frames, required) ==
    /\ MIN_BLINK_DURATION <= blink_duration
    /\ blink_duration < MAX_BLINK_DURATION
    /\ frames >= required

\* the test that accepts an ended closure as a blink
ValidBlink(blink_duration, frames, required) ==
    /\ MIN_BLINK_DURATION <= blink_duration
    /\ blink_duration <= MAX_BLINK_DURATION
    /\ frames >= required

\* the open/closed decision of a frame
EyesClosedNow(ear, threshold) == RatLess(Rat(ear, 1), threshold)

\* the "Eyes closed" branch with the count restarted by the frame that
\* closes the eyes, so that this frame is not itself counted
ClosedStep_TransitionNotCounted(a, current_time) ==
    [eyes_closed |-> TRUE,
     eyes_closed_start_time |->
         IF ~a.eyes_closed THEN Some(current_time)
         ELSE a.eyes_closed_start_time,
     open_frame_counter |->
         IF ~a.eyes_closed THEN 0 ELSE a.open_frame_counter,
     frame_counter |-> IF ~a.eyes_closed THEN 0 ELSE a.frame_counter + 1,
     blink |-> FALSE]

\* process_frame, "Eyes closed" branch: the automaton after a frame judged
\* closed at current_time
ClosedStep(a, current_time) ==
    [eyes_closed |-> TRUE,
     eyes_closed_start_time |->
         IF ~a.eyes_closed THEN Some(current_time)
         ELSE a.eyes_closed_start_time,
     open_frame_counter |->
         IF ~a.eyes_closed THEN 0 ELSE a.open_frame_counter,
     frame_counter |-> a.frame_counter + 1,
     blink |-> FALSE]

\* the "Eyes open" branch resetting the automaton only after a valid blink
OpenedStep_ResetOnlyIfValid(a, current_time, required) ==
    LET valid == a.eyes_closed /\
                 ValidBlink(current_time - Val(a.eyes_closed_start_time),
                            a.frame_counter, required)
    IN  [eyes_closed |-> FALSE,
         eyes_closed_start_time |->
             IF valid THEN None ELSE a.eyes_closed_start_time,
         frame_counter |-> IF valid THEN 0 ELSE a.frame_counter,
         open_frame_counter |-> a.open_frame_counter + 1,
         blink |-> valid]

\* process_frame, "Eyes open" branch: the automaton after a frame judged open
\* at current_time, and whether the closure it ends is a valid blink
OpenedStep(a, current_time, required) ==
    IF a.eyes_closed
    THEN [eyes_closed |-> FALSE,
          eyes_closed_start_time |-> None,
          frame_counter |-> 0,
          open_frame_counter |-> a.open_frame_counter + 1,
          blink |-> ValidBlink(current_time - Val(a.eyes_closed_start_time),
                               a.frame_counter, required)]
    ELSE [eyes_closed |-> FALSE,
          eyes_closed_start_time |-> a.eyes_closed_start_time,
          frame_counter |-> a.frame_counter,
          open_frame_counter |-> a.open_frame_counter + 1,
          blink |-> FALSE]

\* the blink detection logic of process_frame
AutomatonStep(a, closed, current_time, required) ==
    IF closed THEN ClosedStep(a, current_time)
    ELSE OpenedStep(a, current_time, required)

\* a blink counter that counts every frame
CountBlink_EveryFrame(counter, blink) == counter + 1

\* a blink counter after a frame: blink_counter += 1, total_blinks += 1
CountBlink(counter, blink) == IF blink THEN counter + 1 ELSE counter

\* process_frame, "Save to database": whether a counted blink is handed to
\* _save_blink (db_manager is the application's DatabaseManager)
ForwardsBlink(session) == session # None

\* a process_frame that does not consult the pause flag
SkipsFrame_Never(paused) == FALSE

\* whether process_frame returns before looking at the frame
SkipsFrame(paused) == paused

\* current_ear left as it was when no face is found
EarWhenNoFace_Stale == current_ear

\* current_ear when no face is found
EarWhenNoFace == 0

\* Python's round of the quotient n / d (n >= 0, d > 0) to an integer, ties
\* to the even neighbour
RoundHalfEven(n, d) ==
    LET q == n \div d
        r == n % d
    IN  IF 2 * r < d THEN q
        ELSE IF 2 * r > d THEN q + 1
        ELSE IF q % 2 = 0 THEN q ELSE q + 1

\* get_stats of the EAR detector with the clock reading Now and the session
\* started at start_time.  session_duration is in whole seconds;
\* blinks_per_minute is rounded to one decimal and held in tenths;
\* current_ear, baseline_ear and active_threshold are rounded to three
\* decimals and held in thousandths.
mp_get_stats(start_time) ==
    LET duration == IF start_time # None
                    THEN (Now - Val(start_time)) \div 1000 ELSE 0
        threshold == get_adaptive_threshold(use_adaptive_threshold,
                         baseline_ear, EAR_THRESHOLD, GLASSES_MODE)
    IN  [session_blinks |-> blink_counter,
         total_blinks |-> total_blinks,
         session_duration |-> duration,
         blinks_per_minute |->
             IF duration > 0 THEN RoundHalfEven(blink_counter * 600, duration)
             ELSE 0,
         current_ear |-> RoundHalfEven(current_ear, 1),
         baseline_ear |-> RoundHalfEven(baseline_ear.num, baseline_ear.den),
         active_threshold |-> RoundHalfEven(threshold.num, threshold.den),
         eyes_detected |-> current_ear > 0,
         is_paused |-> is_paused]

\* an empty dict
EmptyMap == [k \in {} |-> 0]

\* a thread that is in no health check
Idle == [pc |-> "idle"]

\* HealthInsightsMonitor.__init__, with the clock reading clock
HealthInit(clock) ==
    /\ health_clock = clock
    /\ last_alert_time = EmptyMap
    /\ notifications = <<>>
    /\ checking = [t \in Threads |-> Idle]

MPInit ==
    /\ EAR_THRESHOLD = DefaultEarThreshold
    /\ GLASSES_MODE = FALSE
    /\ use_adaptive_threshold = TRUE
    /\ blink_counter = 0
    /\ frame_counter = 0
    /\ open_frame_counter = 0
    /\ eyes_closed = FALSE
    /\ eyes_closed_start_time = None
    /\ ear_history = <<>>
    /\ baseline_ear = Rat(0, 1)
    /\ baseline_history = <<>>
    /\ current_ear = 0
    /\ session_id = None

CVInit ==
    /\ frames_without_eyes = 0
    /\ frames_with_eyes = 0
    /\ prev_eye_detected = TRUE
    /\ camera = None
    /\ BLINK_THRESHOLD = DefaultBlinkThreshold
    /\ stats = [total_blinks |-> 0, session_blinks |-> 0,
                blinks_per_minute |-> Rat(0, 1), session_duration |-> 0,
                last_blink_time |-> None, eyes_detected |-> FALSE]

\* no blink is being counted and no statistics are being read
ThreadInit ==
    /\ registering = "idle"
    /\ reading = None
    /\ is_tracking = FALSE
    /\ active_camera = None
    /\ tracking_thread = None
    /\ control = "init"
    /\ loop = [t \in LoopIds |->
                  [pc |-> "unborn", camera |-> None, failed_frames |-> 0]]

\* the detector the application constructs, and the tables it writes to
DetectorInit ==
    /\ variant \in {"mediapipe", "opencv"}
    /\ MPInit
    /\ CVInit
    /\ db_blinks = 0
    /\ db_sessions = 0
    /\ not_visible_run = 0
    /\ ThreadInit
    /\ CONSECUTIVE_FRAMES = IF variant = "mediapipe"
                            THEN DefaultConsecutiveFramesMP
                            ELSE DefaultConsecutiveFramesCV
    /\ total_blinks = 0
    /\ last_blink_time = None
    /\ is_paused = FALSE
    /\ is_detecting = FALSE
    /\ session_start_time = None

Init ==
    /\ ncalls = 0
    /\ DetectorInit
    /\ HealthInit(SetClock)
    /\ ret = None
    /\ last_op = [op |-> "init"]

\* The bookkeeping of every call.  A lifecycle call or a setter that would
\* change no field (resume while not paused, a setter given the value
\* already set) leaves the detector as it is and is not explored.
Call(changes) ==
    /\ changes
    /\ ncalls < MaxCalls
    /\ ncalls' = ncalls + 1
    /\ UNCHANGED <<variant, healthvars, threadvars>>

\* process_frame of the EAR detector, called gap ms after the previous call.
\* The method has no exception handler: when cv2.cvtColor or
\* FaceMesh.process raises (kind "raises") the exception leaves the method
\* before any field is written.
MPProcessFrame(kind, raw, gap) ==
    /\ variant = "mediapipe"
    /\ Call(TRUE)
    /\ session_start_time' = Elapse(session_start_time, gap)
    /\ UNCHANGED <<not_visible_run, session_id>>
    /\ UNCHANGED <<mpconfig, CONSECUTIVE_FRAMES, is_paused, is_detecting,
                   cvvars, db_blinks, db_sessions>>
    /\ IF SkipsFrame(is_paused) \/ kind = "none"
       THEN /\ ret' = FALSE
            /\ last_op' = [op |-> "process_frame",
                           outcome |-> IF SkipsFrame(is_paused) THEN "paused"
                                       ELSE "none",
                           blinks_before |-> blink_counter,
                           total_before |-> total_blinks]
            /\ eyes_closed_start_time' = Elapse(eyes_closed_start_time, gap)
            /\ last_blink_time' = Elapse(last_blink_time, gap)
            /\ UNCHANGED <<eyes_closed, frame_counter, windows, blink_counter,
                           open_frame_counter, current_ear, total_blinks>>
       ELSE IF kind = "raises"
       THEN /\ ret' = None
            /\ last_op' = [op |-> "process_frame", outcome |-> "raised",
                           blinks_before |-> blink_counter,
                           total_before |-> total_blinks]
            /\ eyes_closed_start_time' = Elapse(eyes_closed_start_time, gap)
            /\ last_blink_time' = Elapse(last_blink_time, gap)
            /\ UNCHANGED <<eyes_closed, frame_counter, windows, blink_counter,
                           open_frame_counter, current_ear, total_blinks>>
       ELSE IF kind = "noface"
       THEN /\ current_ear' = EarWhenNoFace
            /\ ret' = FALSE
            /\ last_op' = [op |-> "process_frame", outcome |-> "noface",
                           blinks_before |-> blink_counter,
                           total_before |-> total_blinks]
            /\ eyes_closed_start_time' = Elapse(eyes_closed_start_time, gap)
            /\ last_blink_time' = Elapse(last_blink_time, gap)
            /\ UNCHANGED <<eyes_closed, frame_counter, windows, blink_counter,
                           open_frame_counter, total_blinks>>
       ELSE LET sm == smooth_ear(ear_history, raw)
                ear == sm.result
                bl == update_baseline(baseline_history, baseline_ear, ear,
                                      use_adaptive_threshold, EAR_THRESHOLD)
                threshold == get_adaptive_threshold(use_adaptive_threshold,
                                 bl.baseline, EAR_THRESHOLD, GLASSES_MODE)
                current_time == Now
                closed == EyesClosedNow(ear, threshold)
                before == [eyes_closed |-> eyes_closed,
                           eyes_closed_start_time |->
                               Elapse(eyes_closed_start_time, gap),
                           frame_counter |-> frame_counter,
                           open_frame_counter |-> open_frame_counter]
                after == AutomatonStep(before, closed, current_time,
                                       CONSECUTIVE_FRAMES)
            IN  /\ ear_history' = sm.history
                /\ current_ear' = ear
                /\ baseline_history' = bl.history
                /\ baseline_ear' = bl.baseline
                /\ eyes_closed' = after.eyes_closed
                /\ eyes_closed_start_time' = after.eyes_closed_start_time
                /\ frame_counter' = after.frame_counter
                /\ open_frame_counter' = after.open_frame_counter
                /\ blink_counter' = CountBlink(blink_counter, after.blink)
                /\ total_blinks' = CountBlink(total_blinks, after.blink)
                /\ last_blink_time' =
                      IF after.blink THEN Some(current_time)
                      ELSE Elapse(last_blink_time, gap)
                /\ ret' = TRUE
                /\ last_op' = [op |-> "process_frame", outcome |-> "face",
                               blinks_before |-> blink_counter,
                               total_before |-> total_blinks,
                               ear |-> ear, threshold |-> threshold,
                               sampled |-> bl.sampled,
                               closed |-> closed,
                               was_closed |-> eyes_closed,
                               duration |->
                                   IF eyes_closed
                                   THEN Some(current_time
                                      - Val(before.eyes_closed_start_time))
                                   ELSE None,
                               frames |-> frame_counter,
                               forwarded |->
                                   IF after.blink /\ ForwardsBlink(session_id)
                                   THEN 1 ELSE 0,
                               blink |-> after.blink]

\* pause / resume (both detectors)
Pause ==
    /\ Call(~is_paused)
    /\ is_paused' = TRUE
    /\ ret' = None
    /\ last_op' = [op |-> "pause"]
    /\ UNCHANGED not_visible_run
    /\ UNCHANGED <<mpvars, cvvars, db_blinks, db_sessions, CONSECUTIVE_FRAMES,
                   total_blinks, last_blink_time, is_detecting,
                   session_start_time>>

Resume ==
    /\ Call(is_paused)
    /\ is_paused' = FALSE
    /\ ret' = None
    /\ last_op' = [op |-> "resume"]
    /\ UNCHANGED not_visible_run
    /\ UNCHANGED <<mpvars, cvvars, db_blinks, db_sessions, CONSECUTIVE_FRAMES,
                   total_blinks, last_blink_time, is_detecting,
                   session_start_time>>

\* start_detection of the EAR detector.  DatabaseManager has no
\* create_session: the call raises before session_id is assigned, the
\* handler logs it, and session_id stays as it was.
MPStartDetection ==
    /\ variant = "mediapipe"
    /\ Call(TRUE)
    /\ session_start_time' = Some(Now)
    /\ blink_counter' = 0
    /\ total_blinks' = 0
    /\ is_detecting' = TRUE
    /\ session_id' = session_id
    /\ ret' = None
    /\ last_op' = [op |-> "start_detection", total_before |-> total_blinks]
    /\ UNCHANGED not_visible_run
    /\ UNCHANGED <<mpconfig, automaton, windows, open_frame_counter,
                   current_ear, CONSECUTIVE_FRAMES, last_blink_time, is_paused,
                   cvvars, db_blinks, db_sessions>>

\* stop / stop_detection of the EAR detector.  end_session is asked for only
\* when a session id is set (DatabaseManager has no end_session either:
\* nothing is stored).
MPStop ==
    /\ variant = "mediapipe"
    /\ Call(is_detecting)
    /\ is_detecting' = FALSE
    /\ session_id' = None
    /\ ret' = None
    /\ last_op' = [op |-> "stop", was_detecting |-> is_detecting,
                   requests |-> IF session_id # None THEN 1 ELSE 0,
                   snapshot |-> mp_get_stats(session_start_time)]
    /\ UNCHANGED not_visible_run
    /\ UNCHANGED <<mpconfig, automaton, windows, blink_counter,
                   open_frame_counter, current_ear, cvvars, db_blinks,
                   db_sessions, CONSECUTIVE_FRAMES, total_blinks,
                   last_blink_time, is_paused, session_start_time>>

\* the setters of the EAR detector: none validates its argument
MPSetThreshold(threshold) ==
    /\ variant = "mediapipe"
    /\ Call(threshold # EAR_THRESHOLD)
    /\ EAR_THRESHOLD' = threshold
    /\ ret' = None
    /\ last_op' = [op |-> "set_threshold", arg |-> threshold,
                   before |-> EAR_THRESHOLD, result |-> "None"]
    /\ UNCHANGED not_visible_run
    /\ UNCHANGED <<GLASSES_MODE, use_adaptive_threshold, automaton, windows,
                   blink_counter, open_frame_counter, current_ear, cvvars,
                   session_id, CONSECUTIVE_FRAMES, total_blinks, last_blink_time,
                   is_paused, is_detecting, session_start_time, db_blinks,
                   db_sessions>>

MPSetConsecutiveFrames(frames) ==
    /\ variant = "mediapipe"
    /\ Call(frames # CONSECUTIVE_FRAMES)
    /\ CONSECUTIVE_FRAMES' = frames
    /\ ret' = None
    /\ last_op' = [op |-> "set_consecutive_frames", arg |-> frames,
                   before |-> CONSECUTIVE_FRAMES, result |-> "None"]
    /\ UNCHANGED not_visible_run
    /\ UNCHANGED <<mpvars, cvvars, db_blinks, db_sessions, total_blinks,
                   last_blink_time, is_paused, is_detecting,
                   session_start_time>>

MPSetGlassesMode(enabled) ==
    /\ variant = "mediapipe"
    /\ Call(enabled # GLASSES_MODE)
    /\ GLASSES_MODE' = enabled
    /\ ret' = None
    /\ last_op' = [op |-> "set_glasses_mode", arg |-> enabled]
    /\ UNCHANGED not_visible_run
    /\ UNCHANGED <<EAR_THRESHOLD, use_adaptive_threshold, automaton, windows,
                   blink_counter, open_frame_counter, current_ear, cvvars,
                   session_id, CONSECUTIVE_FRAMES, total_blinks, last_blink_time,
                   is_paused, is_detecting, session_start_time, db_blinks,
                   db_sessions>>

MPSetAdaptiveThreshold(enabled) ==
    /\ variant = "mediapipe"
    /\ Call(enabled # use_adaptive_threshold)
    /\ use_adaptive_threshold' = enabled
    /\ ret' = None
    /\ last_op' = [op |-> "set_adaptive_threshold", arg |-> enabled]
    /\ UNCHANGED not_visible_run
    /\ UNCHANGED <<EAR_THRESHOLD, GLASSES_MODE, automaton, windows,
                   blink_counter, open_frame_counter, current_ear, cvvars,
                   session_id, CONSECUTIVE_FRAMES, total_blinks, last_blink_time,
                   is_paused, is_detecting, session_start_time, db_blinks,
                   db_sessions>>

\* --------------------------------------------------- BlinkDetectorOpenCV

\* whether process_frame returns before looking at the frame
SkipsFrameCV(paused, detecting) == paused \/ ~detecting

\* the blink test with > for >=
BlinkCompleted_Strict(without_eyes, required) == without_eyes > required

\* the blink test made on a frame with eyes visible
BlinkCompleted(without_eyes, required) == without_eyes >= required

\* a blink counted only once its INSERT has succeeded
RegisterBlink_OnlyIfStored(counter, blink, stored) ==
    IF blink /\ stored THEN counter + 1 ELSE counter

\* _register_blink: a counter after a frame; stored: whether record_blink's
\* INSERT succeeded
RegisterBlink(counter, blink, stored) ==
    IF blink THEN counter + 1 ELSE counter

\* the blink detection logic of process_frame: the counters after a frame
\* with eyes visible or not, and whether a blink is registered
PresenceStep(c, eyes_detected, required) ==
    LET without0 == IF ~eyes_detected /\ c.prev_eye_detected THEN 0
                    ELSE c.frames_without_eyes
        with0 == IF ~eyes_detected /\ c.prev_eye_detected THEN 0
                 ELSE c.frames_with_eyes
    IN  IF ~eyes_detected
        THEN [frames_without_eyes |-> without0 + 1,
              frames_with_eyes |-> with0,
              prev_eye_detected |-> eyes_detected,
              blink |-> FALSE]
        ELSE [frames_without_eyes |-> 0,
              frames_with_eyes |-> with0 + 1,
              prev_eye_detected |-> eyes_detected,
              blink |-> BlinkCompleted(without0, required)]

\* _update_session_stats: the statistics after a processed frame
UpdateSessionStats(st, start_time, current_time) ==
    IF start_time = None THEN st
    ELSE LET session_duration == current_time - Val(start_time)
         IN  [st EXCEPT !.session_duration = session_duration,
                        !.blinks_per_minute =
                            IF session_duration > 0
                            THEN Rat(st.session_blinks * 60 * 1000,
                                     session_duration)
                            ELSE @]

\* gap ms pass for the statistics' own timestamp
ElapseStats(st, gap) ==
    [st EXCEPT !.last_blink_time = Elapse(@, gap)]

\* detect_eyes: what process_frame is told; an exception inside detect_eyes
\* is caught there and reported as no eyes
DetectEyes(kind, eyes) == IF kind = "detect_raises" THEN FALSE ELSE eyes

\* process_frame of the presence detector, called gap ms after the previous
\* call.  kind: a frame is passed (and detect_eyes may raise inside), or none
\* is and the camera is read; eyes: what the cascades find;
\* db_ok: whether a blink's INSERT succeeds (record_blink logs a failure).
CVProcessFrame(kind, eyes, gap, db_ok) ==
    /\ variant = "opencv"
    /\ Call(TRUE)
    /\ session_start_time' = Elapse(session_start_time, gap)
    /\ UNCHANGED <<mpvars, CONSECUTIVE_FRAMES, is_paused, is_detecting, camera,
                   BLINK_THRESHOLD, db_sessions>>
    /\ IF SkipsFrameCV(is_paused, is_detecting)
       THEN /\ ret' = TRUE
            /\ last_op' = [op |-> "process_frame",
                           outcome |-> IF is_paused THEN "paused"
                                       ELSE "stopped"]
            /\ last_blink_time' = Elapse(last_blink_time, gap)
            /\ stats' = ElapseStats(stats, gap)
            /\ UNCHANGED <<frames_without_eyes, frames_with_eyes,
                           prev_eye_detected, total_blinks, db_blinks,
                           not_visible_run>>
       ELSE IF kind \in {"none_read_ok", "none_read_fail"}
                  /\ (camera = None \/ kind = "none_read_fail")
       THEN /\ ret' = FALSE
            /\ last_op' = [op |-> "process_frame", outcome |-> "noframe"]
            /\ last_blink_time' = Elapse(last_blink_time, gap)
            /\ stats' = ElapseStats(stats, gap)
            /\ UNCHANGED <<frames_without_eyes, frames_with_eyes,
                           prev_eye_detected, total_blinks, db_blinks,
                           not_visible_run>>
       ELSE LET current_time == Now
                eyes_detected == DetectEyes(kind, eyes)
                before == [frames_without_eyes |-> frames_without_eyes,
                           frames_with_eyes |-> frames_with_eyes,
                           prev_eye_detected |-> prev_eye_detected]
                after == PresenceStep(before, eyes_detected,
                                      CONSECUTIVE_FRAMES)
                st1 == [ElapseStats(stats, gap)
                           EXCEPT !.eyes_detected = eyes_detected]
                total == RegisterBlink(total_blinks, after.blink, db_ok)
                st2 == IF after.blink
                       THEN [st1 EXCEPT !.session_blinks =
                                            RegisterBlink(@, after.blink,
                                                          db_ok),
                                        !.total_blinks = total,
                                        !.last_blink_time = Some(current_time)]
                       ELSE st1
            IN  /\ frames_without_eyes' = after.frames_without_eyes
                /\ frames_with_eyes' = after.frames_with_eyes
                /\ prev_eye_detected' = after.prev_eye_detected
                /\ total_blinks' = total
                /\ last_blink_time' =
                      IF after.blink THEN Some(current_time)
                      ELSE Elapse(last_blink_time, gap)
                /\ db_blinks' =
                      IF after.blink /\ db_ok THEN db_blinks + 1 ELSE db_blinks
                /\ stats' = UpdateSessionStats(st2, session_start_time',
                                               current_time)
                /\ not_visible_run' =
                      IF eyes_detected THEN 0 ELSE not_visible_run + 1
                /\ ret' = TRUE
                /\ last_op' = [op |-> "process_frame", outcome |-> "frame",
                               eyes |-> eyes_detected,
                               was_visible |-> prev_eye_detected,
                               without |-> frames_without_eyes,
                               run |-> not_visible_run,
                               total_before |-> total_blinks,
                               session_before |-> stats.session_blinks,
                               forwarded |-> IF after.blink THEN 1 ELSE 0,
                               db_ok |-> db_ok,
                               blink |-> after.blink]

\* start_detection of the presence detector; db_ok: whether the COUNT query
\* succeeds (get_total_blinks returns 0 when it fails)
CVStartDetection(cam, db_ok) ==
    /\ variant = "opencv"
    /\ Call(TRUE)
    /\ camera' = cam
    /\ is_detecting' = TRUE
    /\ is_paused' = FALSE
    /\ session_start_time' = Some(Now)
    /\ frames_without_eyes' = 0
    /\ frames_with_eyes' = 0
    /\ prev_eye_detected' = TRUE
    /\ not_visible_run' = 0
    /\ total_blinks' = IF db_ok THEN db_blinks ELSE 0
    /\ stats' = [stats EXCEPT !.session_blinks = 0,
                              !.total_blinks = total_blinks']
    /\ ret' = None
    /\ last_op' = [op |-> "start_detection", total_before |-> total_blinks,
                   db_ok |-> db_ok]
    /\ UNCHANGED <<mpvars, CONSECUTIVE_FRAMES, last_blink_time, db_blinks,
                   db_sessions, BLINK_THRESHOLD>>

\* stop_detection / stop of the presence detector; db_ok: whether the
\* session's INSERT succeeds (save_session logs a failure)
CVStopDetection(db_ok) ==
    /\ variant = "opencv"
    /\ Call(is_detecting \/ is_paused \/ camera # None
                     \/ session_start_time # None)
    /\ is_detecting' = FALSE
    /\ is_paused' = FALSE
    /\ camera' = None
    /\ db_sessions' = IF session_start_time # None /\ db_ok
                      THEN db_sessions + 1 ELSE db_sessions
    /\ ret' = None
    /\ last_op' = [op |-> "stop_detection", was_detecting |-> is_detecting,
                   requests |-> IF session_start_time # None THEN 1 ELSE 0,
                   snapshot |-> stats]
    /\ UNCHANGED not_visible_run
    /\ UNCHANGED <<mpvars, frames_without_eyes, frames_with_eyes,
                   prev_eye_detected, stats, BLINK_THRESHOLD,
                   CONSECUTIVE_FRAMES, total_blinks,
                   last_blink_time, session_start_time, db_blinks>>

\* the range check of set_blink_threshold and set_consecutive_frames
InSetterRange(n) == 1 <= n /\ n <= 10

\* what a setter of the presence detector reports
Reported(ok) == IF ok THEN "True" ELSE "False"

\* set_consecutive_frames of the presence detector.  A call with the value
\* already set is not explored; a rejected call is.
CVSetConsecutiveFrames(frames) ==
    /\ variant = "opencv"
    /\ Call(frames # CONSECUTIVE_FRAMES)
    /\ CONSECUTIVE_FRAMES' = IF InSetterRange(frames) THEN frames
                             ELSE CONSECUTIVE_FRAMES
    /\ ret' = InSetterRange(frames)
    /\ last_op' = [op |-> "set_consecutive_frames", arg |-> frames,
                   before |-> CONSECUTIVE_FRAMES,
                   result |-> Reported(InSetterRange(frames))]
    /\ UNCHANGED not_visible_run
    /\ UNCHANGED <<mpvars, cvvars, db_blinks, db_sessions, total_blinks,
                   last_blink_time, is_paused, is_detecting,
                   session_start_time>>

Next ==
    \/ \E kind \in FrameKinds, raw \in EarValues, gap \in FrameGaps :
          MPProcessFrame(kind, raw, gap)
    \/ \E kind \in CVFrameKinds, eyes \in BOOLEAN, gap \in FrameGaps,
          db_ok \in BOOLEAN :
          CVProcessFrame(kind, eyes, gap, db_ok)
    \/ Pause
    \/ Resume
    \/ MPStartDetection
    \/ MPStop
    \/ \E cam \in CameraArgs, db_ok \in BOOLEAN : CVStartDetection(cam, db_ok)
    \/ \E db_ok \in BOOLEAN : CVStopDetection(db_ok)
    \/ \E t \in ThresholdArgs : MPSetThreshold(t)
    \/ \E n \in FrameCountArgs : MPSetConsecutiveFrames(n)
    \/ \E n \in FrameCountArgs : CVSetConsecutiveFrames(n)
    \/ \E b \in BOOLEAN : MPSetGlassesMode(b)
    \/ \E b \in BOOLEAN : MPSetAdaptiveThreshold(b)

Spec == Init /\ [][Next]_vars

\* ------------------------------- the presence detector, as constructed
\*
\* BlinkDetectorOpenCV(db_manager, blink_threshold, consecutive_frames) with
\* consecutive_frames as the caller gives it.

InitPresence ==
    /\ ncalls = 0
    /\ variant = "opencv"
    /\ MPInit
    /\ CVInit
    /\ db_blinks = 0
    /\ db_sessions = 0
    /\ not_visible_run = 0
    /\ ThreadInit
    /\ CONSECUTIVE_FRAMES \in ConstructorFrameArgs
    /\ total_blinks = 0
    /\ last_blink_time = None
    /\ is_paused = FALSE
    /\ is_detecting = FALSE
    /\ session_start_time = None
    /\ HealthInit(SetClock)
    /\ ret = None
    /\ last_op = [op |-> "init"]

NextPresence ==
    \/ \E kind \in CVFrameKinds, eyes \in BOOLEAN, gap \in FrameGaps,
          db_ok \in BOOLEAN :
          CVProcessFrame(kind, eyes, gap, db_ok)
    \/ Pause
    \/ Resume
    \/ \E cam \in CameraArgs, db_ok \in BOOLEAN : CVStartDetection(cam, db_ok)
    \/ \E db_ok \in BOOLEAN : CVStopDetection(db_ok)
    \/ \E n \in FrameCountArgs : CVSetConsecutiveFrames(n)

SpecPresence == InitPresence /\ [][NextPresence]_vars

\* ------------------------------------------- sessions and their statistics

\* what get_stats would return at this moment
GetStatsNow ==
    IF variant = "mediapipe" THEN mp_get_stats(session_start_time) ELSE stats

\* get_stats, called gap ms after the previous call.  The EAR detector
\* computes the snapshot from the clock; the presence detector returns a
\* copy of stats.
GetStats(gap) ==
    LET snapshot == IF variant = "mediapipe"
                    THEN mp_get_stats(Elapse(session_start_time, gap))
                    ELSE ElapseStats(stats, gap)
    IN  /\ ncalls < MaxSessionCalls
        /\ ncalls' = ncalls + 1
        /\ session_start_time' = Elapse(session_start_time, gap)
        /\ eyes_closed_start_time' = Elapse(eyes_closed_start_time, gap)
        /\ last_blink_time' = Elapse(last_blink_time, gap)
        /\ stats' = ElapseStats(stats, gap)
        /\ ret' = snapshot
        /\ last_op' = [op |-> "get_stats", gap |-> gap,
                       snapshot |-> snapshot]
        /\ UNCHANGED <<variant, healthvars, threadvars, mpconfig,
                       eyes_closed, frame_counter, windows, blink_counter,
                       open_frame_counter, current_ear, session_id,
                       frames_without_eyes, frames_with_eyes,
                       prev_eye_detected, camera, BLINK_THRESHOLD,
                       CONSECUTIVE_FRAMES, total_blinks, is_paused,
                       is_detecting, db_blinks, db_sessions, not_visible_run>>

\* The detector as constructed, with the consecutive-frames setting at
\* SessionConsecutiveFrames.
InitSession ==
    /\ ncalls = 0
    /\ variant \in {"mediapipe", "opencv"}
    /\ MPInit
    /\ CVInit
    /\ db_blinks = 0
    /\ db_sessions = 0
    /\ not_visible_run = 0
    /\ ThreadInit
    /\ CONSECUTIVE_FRAMES = SessionConsecutiveFrames
    /\ total_blinks = 0
    /\ last_blink_time = None
    /\ is_paused = FALSE
    /\ is_detecting = FALSE
    /\ session_start_time = None
    /\ HealthInit(SetClock)
    /\ ret = None
    /\ last_op = [op |-> "init"]

NextSession ==
    \/ \E kind \in SessionFrameKinds, raw \in EarValues,
          gap \in SessionFrameGaps :
          MPProcessFrame(kind, raw, gap)
    \/ \E kind \in SessionCVFrameKinds, eyes \in BOOLEAN,
          gap \in SessionFrameGaps :
          CVProcessFrame(kind, eyes, gap, TRUE)
    \/ MPStartDetection
    \/ MPStop
    \/ \E cam \in CameraArgs : CVStartDetection(cam, TRUE)
    \/ CVStopDetection(TRUE)
    \/ \E gap \in StatsGaps : GetStats(gap)

SpecSession == InitSession /\ [][NextSession]_vars

\* ------------------------- statistics read while a blink is being counted
\*
\* The tracking thread counts a blink in separate statements and the status
\* thread (the web server's) reads the statistics with no lock between them.
\* No session is started or stopped here: both counters start at 0 and a
\* blink adds 1 to each, so between two processed frames they are equal.

\* what a step of either thread leaves alone
SnapshotStep ==
    UNCHANGED <<variant, healthvars, mpvars_but_counter, frames_without_eyes,
                frames_with_eyes, prev_eye_detected, camera, BLINK_THRESHOLD,
                CONSECUTIVE_FRAMES, last_blink_time, is_paused, is_detecting,
                session_start_time, db_blinks, db_sessions, not_visible_run,
                appvars>>

\* The tracking thread begins to count a blink.  EAR detector, line 257:
\* blink_counter += 1.  Presence detector, line 167: total_blinks += 1.
RegisterBegin ==
    /\ registering = "idle"
    /\ ncalls < MaxSnapshotSteps
    /\ ncalls' = ncalls + 1
    /\ IF variant = "mediapipe"
       THEN /\ blink_counter' = blink_counter + 1
            /\ UNCHANGED <<total_blinks, stats>>
       ELSE /\ total_blinks' = total_blinks + 1
            /\ UNCHANGED <<blink_counter, stats>>
    /\ registering' = "first"
    /\ last_op' = [op |-> "register_blink"]
    /\ SnapshotStep
    /\ UNCHANGED <<reading, ret>>

\* The tracking thread goes on.  EAR detector, line 258: total_blinks += 1.
\* Presence detector, line 168: stats['session_blinks'] += 1, then line 169:
\* stats['total_blinks'] = self.total_blinks.
RegisterStep ==
    /\ registering # "idle"
    /\ IF variant = "mediapipe"
       THEN /\ total_blinks' = total_blinks + 1
            /\ registering' = "idle"
            /\ UNCHANGED <<blink_counter, stats>>
       ELSE IF registering = "first"
       THEN /\ stats' = [stats EXCEPT !.session_blinks = @ + 1]
            /\ registering' = "second"
            /\ UNCHANGED <<blink_counter, total_blinks>>
       ELSE /\ stats' = [stats EXCEPT !.total_blinks = total_blinks]
            /\ registering' = "idle"
            /\ UNCHANGED <<blink_counter, total_blinks>>
    /\ last_op' = [op |-> "register_blink"]
    /\ SnapshotStep
    /\ UNCHANGED <<ncalls, reading, ret>>

\* The status thread begins get_stats.  EAR detector: blink_counter is read
\* (lines 350-353) before total_blinks is.  Presence detector: stats.copy()
\* copies the dict in one step and the snapshot is returned.
ReadBegin ==
    /\ reading = None
    /\ ncalls < MaxSnapshotSteps
    /\ ncalls' = ncalls + 1
    /\ IF variant = "mediapipe"
       THEN /\ reading' = Some(blink_counter)
            /\ ret' = ret
            /\ last_op' = [op |-> "get_stats", returned |-> FALSE]
       ELSE /\ reading' = None
            /\ ret' = [session_blinks |-> stats.session_blinks,
                       total_blinks |-> stats.total_blinks]
            /\ last_op' = [op |-> "get_stats", returned |-> TRUE,
                           snapshot |-> ret']
    /\ SnapshotStep
    /\ UNCHANGED <<registering, blink_counter, total_blinks, stats>>

\* The status thread of the EAR detector reads total_blinks (line 354) and
\* returns the snapshot.
ReadEnd ==
    /\ reading # None
    /\ reading' = None
    /\ ret' = [session_blinks |-> Val(reading), total_blinks |-> total_blinks]
    /\ last_op' = [op |-> "get_stats", returned |-> TRUE, snapshot |-> ret']
    /\ SnapshotStep
    /\ UNCHANGED <<ncalls, registering, blink_counter, total_blinks, stats>>

NextSnapshot ==
    \/ RegisterBegin
    \/ RegisterStep
    \/ ReadBegin
    \/ ReadEnd

SpecSnapshot == Init /\ [][NextSnapshot]_vars

\* ------------------------------------------------- the setters, validated

\* Python's int() of the quotient n / d, d > 0: truncation towards zero
IntTrunc(n, d) == IF n >= 0 THEN n \div d ELSE -((-n) \div d)

\* set_ear_threshold: the frame threshold an EAR threshold is mapped to,
\* max(1, min(10, int((0.5 - threshold) * 20)))
FrameThresholdOf(threshold) ==
    LET frame_threshold == IntTrunc((500 - threshold) * 20, 1000)
        capped == IF frame_threshold < 10 THEN frame_threshold ELSE 10
    IN  IF capped > 1 THEN capped ELSE 1

\* set_blink_threshold of the presence detector
CVSetBlinkThreshold(threshold) ==
    /\ variant = "opencv"
    /\ Call(threshold # BLINK_THRESHOLD)
    /\ BLINK_THRESHOLD' = IF InSetterRange(threshold) THEN threshold
                          ELSE BLINK_THRESHOLD
    /\ ret' = InSetterRange(threshold)
    /\ last_op' = [op |-> "set_blink_threshold", arg |-> threshold,
                   before |-> BLINK_THRESHOLD,
                   result |-> Reported(InSetterRange(threshold))]
    /\ UNCHANGED not_visible_run
    /\ UNCHANGED <<mpvars, frames_without_eyes, frames_with_eyes,
                   prev_eye_detected, camera, stats, CONSECUTIVE_FRAMES,
                   db_blinks, db_sessions, total_blinks, last_blink_time,
                   is_paused, is_detecting, session_start_time>>

\* set_ear_threshold of the presence detector: set_blink_threshold of the
\* mapped and capped value
CVSetEarThreshold(threshold) ==
    LET frame_threshold == FrameThresholdOf(threshold)
    IN  /\ variant = "opencv"
        /\ Call(TRUE)
        /\ BLINK_THRESHOLD' = IF InSetterRange(frame_threshold)
                              THEN frame_threshold ELSE BLINK_THRESHOLD
        /\ ret' = InSetterRange(frame_threshold)
        /\ last_op' = [op |-> "set_ear_threshold", arg |-> threshold,
                       before |-> BLINK_THRESHOLD,
                       result |-> Reported(InSetterRange(frame_threshold))]
        /\ UNCHANGED not_visible_run
        /\ UNCHANGED <<mpvars, frames_without_eyes, frames_with_eyes,
                       prev_eye_detected, camera, stats, CONSECUTIVE_FRAMES,
                       db_blinks, db_sessions, total_blinks, last_blink_time,
                       is_paused, is_detecting, session_start_time>>

NextSettings ==
    \/ \E n \in SettingFrameArgs : MPSetConsecutiveFrames(n)
    \/ \E n \in SettingFrameArgs : CVSetConsecutiveFrames(n)
    \/ \E t \in SettingThresholdArgs : MPSetThreshold(t)
    \/ \E t \in SettingThresholdArgs : CVSetEarThreshold(t)
    \/ \E n \in SettingFrameArgs : CVSetBlinkThreshold(n)

SpecSettings == Init /\ [][NextSettings]_vars

\* -------------------------------------------------- HealthInsightsMonitor

\* a HealthInsight, by its status tag and its level
Insight(status, level) == Some([status |-> status, level |-> level])

\* the cascade with the severe rule taking blinks_per_minute = 8 as well
analyze_blink_pattern_InclusiveLow(blinks_per_minute, session_duration_seconds) ==
    IF blinks_per_minute <= VERY_LOW_THRESHOLD /\ blinks_per_minute > 0
    THEN Insight("critical", "CRITICAL")
    ELSE IF blinks_per_minute < LOW_THRESHOLD /\ blinks_per_minute > 0
    THEN Insight("warning", "WARNING")
    ELSE IF blinks_per_minute > VERY_HIGH_THRESHOLD
    THEN Insight("alert", "ALERT")
    ELSE IF blinks_per_minute > HIGH_THRESHOLD
    THEN Insight("elevated", "INFO")
    ELSE IF session_duration_seconds >= 60 * MAX_CONTINUOUS_WORK
    THEN Insight("extended_work", "CRITICAL")
    ELSE IF session_duration_seconds >= 60 * LONG_BREAK_INTERVAL
    THEN Insight("break_reminder", "INFO")
    ELSE None

\* the cascade with the duration rules ahead of the rate rules
analyze_blink_pattern_DurationFirst(blinks_per_minute, session_duration_seconds) ==
    IF session_duration_seconds >= 60 * MAX_CONTINUOUS_WORK
    THEN Insight("extended_work", "CRITICAL")
    ELSE IF session_duration_seconds >= 60 * LONG_BREAK_INTERVAL
    THEN Insight("break_reminder", "INFO")
    ELSE IF blinks_per_minute < VERY_LOW_THRESHOLD /\ blinks_per_minute > 0
    THEN Insight("critical", "CRITICAL")
    ELSE IF blinks_per_minute < LOW_THRESHOLD /\ blinks_per_minute > 0
    THEN Insight("warning", "WARNING")
    ELSE IF blinks_per_minute > VERY_HIGH_THRESHOLD
    THEN Insight("alert", "ALERT")
    ELSE IF blinks_per_minute > HIGH_THRESHOLD
    THEN Insight("elevated", "INFO")
    ELSE None

\* analyze_blink_pattern: the insight returned, or None.  duration_minutes
\* is session_duration_seconds / 60, so duration_minutes >= m is
\* session_duration_seconds >= 60 * m.
analyze_blink_pattern(blinks_per_minute, session_duration_seconds) ==
    IF blinks_per_minute < VERY_LOW_THRESHOLD /\ blinks_per_minute > 0
    THEN Insight("critical", "CRITICAL")
    ELSE IF blinks_per_minute < LOW_THRESHOLD /\ blinks_per_minute > 0
    THEN Insight("warning", "WARNING")
    ELSE IF blinks_per_minute > VERY_HIGH_THRESHOLD
    THEN Insight("alert", "ALERT")
    ELSE IF blinks_per_minute > HIGH_THRESHOLD
    THEN Insight("elevated", "INFO")
    ELSE IF session_duration_seconds >= 60 * MAX_CONTINUOUS_WORK
    THEN Insight("extended_work", "CRITICAL")
    ELSE IF session_duration_seconds >= 60 * LONG_BREAK_INTERVAL
    THEN Insight("break_reminder", "INFO")
    ELSE None

\* get_blink_rate_interpretation: the category of a blink rate
get_blink_rate_interpretation(bpm) ==
    IF bpm = 0 THEN "No Data"
    ELSE IF bpm < VERY_LOW_THRESHOLD THEN "Severely Low"
    ELSE IF bpm < LOW_THRESHOLD THEN "Below Normal"
    ELSE IF bpm >= NORMAL_BLINK_RATE_min /\ bpm <= NORMAL_BLINK_RATE_max
    THEN "Normal"
    ELSE IF bpm <= HIGH_THRESHOLD THEN "Slightly Elevated"
    ELSE IF bpm <= VERY_HIGH_THRESHOLD THEN "Elevated"
    ELSE "Very High"

\* the categories get_blink_rate_interpretation has a branch for
Categories == {"No Data", "Severely Low", "Below Normal", "Normal",
               "Slightly Elevated", "Elevated", "Very High"}

\* A monitor that has fired no alert yet, or one that fired "critical" when
\* the clock read SetClock.
InitAnalyze ==
    /\ DetectorInit
    /\ ncalls = 0
    /\ health_clock = SetClock
    /\ last_alert_time \in {EmptyMap, [k \in {"critical"} |-> SetClock]}
    /\ notifications = <<>>
    /\ checking = [t \in Threads |-> Idle]
    /\ ret = None
    /\ last_op = [op |-> "init"]

AnalyzeCall(blinks_per_minute, session_duration_seconds) ==
    LET insight == analyze_blink_pattern(blinks_per_minute,
                                         session_duration_seconds)
    IN  /\ ncalls < MaxAnalyzeCalls
        /\ ncalls' = ncalls + 1
        /\ ret' = insight
        /\ last_op' = [op |-> "analyze_blink_pattern",
                       bpm |-> blinks_per_minute,
                       seconds |-> session_duration_seconds,
                       insight |-> insight,
                       map_before |-> last_alert_time]
        /\ UNCHANGED <<detectorvars, healthvars>>

InterpretCall(bpm) ==
    /\ ncalls < MaxAnalyzeCalls
    /\ ncalls' = ncalls + 1
    /\ ret' = get_blink_rate_interpretation(bpm)
    /\ last_op' = [op |-> "get_blink_rate_interpretation", bpm |-> bpm,
                   category |-> ret']
    /\ UNCHANGED <<detectorvars, healthvars>>

NextAnalyze ==
    \/ \E bpm \in BpmValues, seconds \in DurationValues :
          AnalyzeCall(bpm, seconds)
    \/ \E bpm \in BpmValues : InterpretCall(bpm)

SpecAnalyze == InitAnalyze /\ [][NextAnalyze]_vars

\* dict.get(key, default) and dict[key] = value
Lookup(map, key, default) == IF key \in DOMAIN map THEN map[key] ELSE default
MapSet(map, key, value) ==
    [k \in DOMAIN map \cup {key} |-> IF k = key THEN value ELSE map[k]]

\* the cooldown test of should_show_alert
CooldownOver(now, last_alert) == now - last_alert > alert_cooldown

\* a gate with one cooldown shared by all tags
should_show_alert_Global(map, alert_type, now) ==
    LET last_alert ==
            IF DOMAIN map = {} THEN NeverFiredDefault
            ELSE CHOOSE v \in {map[k] : k \in DOMAIN map} :
                    \A k \in DOMAIN map : map[k] <= v
    IN  IF CooldownOver(now, last_alert)
        THEN [map |-> MapSet(map, alert_type, now), result |-> TRUE]
        ELSE [map |-> map, result |-> FALSE]

\* a gate that keeps the entry of the tag that fired last and no other
should_show_alert_Forgetful(map, alert_type, now) ==
    IF CooldownOver(now, Lookup(map, alert_type, NeverFiredDefault))
    THEN [map |-> [k \in {alert_type} |-> now], result |-> TRUE]
    ELSE [map |-> map, result |-> FALSE]

\* should_show_alert at clock reading now: last_alert_time after the call
\* and the value returned
should_show_alert(map, alert_type, now) ==
    LET last_alert == Lookup(map, alert_type, NeverFiredDefault)
    IN  IF CooldownOver(now, last_alert)
        THEN [map |-> MapSet(map, alert_type, now), result |-> TRUE]
        ELSE [map |-> map, result |-> FALSE]

\* a health check that notifies without asking the gate
Delivers_Ungated(insight, show) == insight # None

\* _check_health_insights: whether the insight is handed to the notifier
Delivers(insight, show) == insight # None /\ show

\* show_health_alert: whether a notification reaches the user
show_health_alert(handed, notifier) == handed /\ notifier = "shown"

\* The monitor as constructed, the clock reading any of StartClocks.
InitHealth ==
    /\ DetectorInit
    /\ ncalls = 0
    /\ \E clock \in StartClocks : HealthInit(clock)
    /\ ret = None
    /\ last_op = [op |-> "init"]

\* what a call of the monitor leaves alone
HealthCall ==
    /\ ncalls < MaxHealthCalls
    /\ ncalls' = ncalls + 1
    /\ UNCHANGED <<detectorvars, checking>>

\* should_show_alert called gap seconds after the previous reading of the
\* clock
ShouldShowAlertCall(alert_type, gap) ==
    LET now == health_clock + gap
        gate == should_show_alert(last_alert_time, alert_type, now)
    IN  /\ HealthCall
        /\ health_clock' = now
        /\ last_alert_time' = gate.map
        /\ ret' = gate.result
        /\ last_op' = [op |-> "should_show_alert", tag |-> alert_type,
                       now |-> now, map_before |-> last_alert_time,
                       result |-> gate.result]
        /\ UNCHANGED notifications

\* _check_health_insights run gap seconds after the previous reading of the
\* clock, get_stats reporting stats_seen.  The gate is asked only when the
\* analysis returned an insight; notifier: what becomes of an insight handed
\* to the notifier.
CheckHealthInsights(stats_seen, gap, notifier) ==
    LET now == health_clock + gap
        insight == analyze_blink_pattern(stats_seen[1], stats_seen[2])
        gate == IF insight # None
                THEN should_show_alert(last_alert_time, Val(insight).status,
                                       now)
                ELSE [map |-> last_alert_time, result |-> FALSE]
        delivered == Delivers(insight, gate.result)
    IN  /\ HealthCall
        /\ health_clock' = now
        /\ last_alert_time' = gate.map
        /\ notifications' =
              IF delivered
              THEN Append(notifications,
                          [status |-> Val(insight).status, at |-> now])
              ELSE notifications
        /\ ret' = None
        /\ last_op' = [op |-> "check_health_insights", insight |-> insight,
                       now |-> now, map_before |-> last_alert_time,
                       sent_before |-> Len(notifications),
                       shown |-> show_health_alert(delivered, notifier),
                       result |-> gate.result]

NextHealth ==
    \/ \E tag \in AlertTags, gap \in ClockGaps :
          ShouldShowAlertCall(tag, gap)
    \/ \E stats_seen \in CheckStats, gap \in ClockGaps,
          notifier \in NotifierOutcomes :
          CheckHealthInsights(stats_seen, gap, notifier)

SpecHealth == InitHealth /\ [][NextHealth]_vars

\* ---------------------------------- health checks run by two threads at once

\* what a step of a health check leaves alone
GateStep == UNCHANGED <<detectorvars, ret>>

\* should_show_alert, lines 214-215: thread t reads the clock and the tag's
\* entry
GateRead(t, alert_type) ==
    /\ checking[t].pc = "idle"
    /\ ncalls < MaxGateSteps
    /\ ncalls' = ncalls + 1
    /\ checking' = [checking EXCEPT ![t] =
                       [pc |-> "read", tag |-> alert_type,
                        now |-> health_clock,
                        last_alert |-> Lookup(last_alert_time, alert_type,
                                             NeverFiredDefault)]]
    /\ last_op' = [op |-> "should_show_alert", thread |-> t]
    /\ GateStep
    /\ UNCHANGED <<health_clock, last_alert_time, notifications>>

\* should_show_alert, lines 217-220, and the notification that follows a
\* True: thread t acts on what it read
GateDecide(t) ==
    /\ checking[t].pc = "read"
    /\ LET c == checking[t]
           show == CooldownOver(c.now, c.last_alert)
       IN  /\ last_alert_time' = IF show
                                 THEN MapSet(last_alert_time, c.tag, c.now)
                                 ELSE last_alert_time
           /\ notifications' =
                 IF show
                 THEN Append(notifications, [status |-> c.tag, at |-> c.now])
                 ELSE notifications
    /\ checking' = [checking EXCEPT ![t] = Idle]
    /\ last_op' = [op |-> "should_show_alert", thread |-> t]
    /\ GateStep
    /\ UNCHANGED <<ncalls, health_clock>>

\* gap seconds pass
Tick(gap) ==
    /\ ncalls < MaxGateSteps
    /\ ncalls' = ncalls + 1
    /\ health_clock' = health_clock + gap
    /\ last_op' = [op |-> "tick"]
    /\ GateStep
    /\ UNCHANGED <<last_alert_time, notifications, checking>>

NextGate ==
    \/ \E t \in Threads, tag \in AlertTags : GateRead(t, tag)
    \/ \E t \in Threads : GateDecide(t)
    \/ \E gap \in ClockGaps : Tick(gap)

SpecGate == Init /\ [][NextGate]_vars

\* ------------------------------------------------- EyeBlinkTrackerApp
\*
\* start_tracking and stop_tracking are called by one caller at a time (the
\* tray menu); each tracking thread runs _tracking_loop statement by
\* statement beside it.  What a call returns is recorded in last_op.result.
\* What a frame does to the detector is described by the process_frame
\* actions above; here a frame is only handed over.

\* the fields of the detector and the tables behind it
detectorfields == <<mpvars, cvvars, CONSECUTIVE_FRAMES, total_blinks,
                    last_blink_time, is_paused, is_detecting,
                    session_start_time, db_blinks, db_sessions,
                    not_visible_run>>

\* what every step of the application leaves alone
AppStep ==
    UNCHANGED <<variant, ncalls, healthvars, registering, reading, ret>>

\* the tracking threads that have been spawned and have not terminated
LiveLoops == {t \in LoopIds : loop[t].pc \notin {"unborn", "done"}}

\* blink_detector.start_detection(camera), either variant
StartDetection(cam) ==
    /\ is_detecting' = TRUE
    /\ session_start_time' = Some(Now)
    /\ IF variant = "mediapipe"
       THEN /\ blink_counter' = 0
            /\ total_blinks' = 0
            /\ UNCHANGED <<cvvars, is_paused, not_visible_run>>
       ELSE /\ camera' = cam
            /\ is_paused' = FALSE
            /\ frames_without_eyes' = 0
            /\ frames_with_eyes' = 0
            /\ prev_eye_detected' = TRUE
            /\ not_visible_run' = 0
            /\ total_blinks' = db_blinks
            /\ stats' = [stats EXCEPT !.session_blinks = 0,
                                      !.total_blinks = total_blinks']
            /\ UNCHANGED <<blink_counter, BLINK_THRESHOLD>>
    /\ UNCHANGED <<mpvars_but_counter, CONSECUTIVE_FRAMES, last_blink_time,
                   db_blinks, db_sessions>>

\* blink_detector.stop(), either variant
StopDetection ==
    /\ is_detecting' = FALSE
    /\ IF variant = "mediapipe"
       THEN /\ session_id' = None
            /\ UNCHANGED <<cvvars, is_paused, db_sessions>>
       ELSE /\ is_paused' = FALSE
            /\ camera' = None
            /\ db_sessions' = IF session_start_time # None
                              THEN db_sessions + 1 ELSE db_sessions
            /\ UNCHANGED <<session_id, frames_without_eyes, frames_with_eyes,
                           prev_eye_detected, stats, BLINK_THRESHOLD>>
    /\ UNCHANGED <<mpconfig, automaton, windows, blink_counter,
                   open_frame_counter, current_ear, CONSECUTIVE_FRAMES,
                   total_blinks, last_blink_time, session_start_time,
                   db_blinks, not_visible_run>>

\* start_tracking; available: what is_camera_available answers
StartTracking(available) ==
    /\ control \in {"init", "started", "stopped"}
    /\ IF is_tracking \/ ~available
       THEN /\ last_op' = [op |-> "start_tracking", result |-> FALSE,
                           was_tracking |-> is_tracking, spawned |-> None]
            /\ UNCHANGED appvars
       ELSE /\ \E t \in LoopIds : loop[t].pc = "unborn"
            /\ LET t == CHOOSE t \in LoopIds :
                            /\ loop[t].pc = "unborn"
                            /\ \A u \in LoopIds : u < t => loop[u].pc # "unborn"
               IN  /\ is_tracking' = TRUE
                   /\ tracking_thread' = Some(t)
                   /\ loop' = [loop EXCEPT ![t].pc = "get_camera"]
                   /\ control' = "started"
                   /\ last_op' = [op |-> "start_tracking", result |-> TRUE,
                                  was_tracking |-> FALSE, spawned |-> Some(t)]
                   /\ UNCHANGED active_camera
    /\ AppStep
    /\ UNCHANGED detectorfields

\* stop_tracking, lines 106-110: the test, and is_tracking = False
StopTrackingBegin ==
    /\ control \in {"init", "started", "stopped"}
    /\ IF ~is_tracking
       THEN /\ last_op' = [op |-> "stop_tracking", step |-> "refused",
                           result |-> FALSE]
            /\ UNCHANGED appvars
       ELSE /\ is_tracking' = FALSE
            /\ control' = "stopping"
            /\ last_op' = [op |-> "stop_tracking", step |-> "clear"]
            /\ UNCHANGED <<active_camera, tracking_thread, loop>>
    /\ AppStep
    /\ UNCHANGED detectorfields

\* stop_tracking, line 111: blink_detector.stop()
StopTrackingDetector ==
    /\ control = "stopping"
    /\ StopDetection
    /\ control' = "joining"
    /\ last_op' = [op |-> "stop_tracking", step |-> "stop"]
    /\ AppStep
    /\ UNCHANGED <<is_tracking, active_camera, tracking_thread, loop>>

\* stop_tracking, lines 113-117: join(timeout=5) returns when the thread has
\* terminated or, if may_time_out, after 5 s with the thread still running
StopTrackingJoin(may_time_out) ==
    LET alive == tracking_thread # None /\ Val(tracking_thread) \in LiveLoops
    IN  /\ control = "joining"
        /\ ~alive \/ may_time_out
        /\ control' = "stopped"
        /\ last_op' = [op |-> "stop_tracking", step |-> "returned",
                       result |-> TRUE, timed_out |-> alive]
        /\ AppStep
        /\ UNCHANGED detectorfields
        /\ UNCHANGED <<is_tracking, active_camera, tracking_thread, loop>>

\* the break test of the loop, with >= for >
TooManyFailures_AtThirty(failed_frames) == failed_frames >= MaxFailedFrames

\* _tracking_loop, line 150: the break test
TooManyFailures(failed_frames) == failed_frames > MaxFailedFrames

\* what a step of tracking thread t records
LoopOp(t, step) ==
    [op |-> "tracking_loop", thread |-> t, step |-> step,
     was_tracking |-> is_tracking, camera_before |-> active_camera,
     failed_before |-> loop[t].failed_frames,
     newer_session |-> \E u \in LiveLoops : u > t]

\* _tracking_loop, lines 123-135: the active camera, or the one auto-select
\* opens; selected: whether auto_select_best_camera succeeds
LoopGetCamera(t, selected) ==
    /\ loop[t].pc = "get_camera"
    /\ IF active_camera # None
       THEN /\ loop' = [loop EXCEPT ![t].pc = "start",
                                    ![t].camera = active_camera]
            /\ UNCHANGED <<is_tracking, active_camera>>
       ELSE IF selected
       THEN /\ active_camera' = Some(t)
            /\ loop' = [loop EXCEPT ![t].pc = "start",
                                    ![t].camera = Some(t)]
            /\ UNCHANGED is_tracking
       ELSE /\ is_tracking' = FALSE
            /\ loop' = [loop EXCEPT ![t].pc = "release"]
            /\ UNCHANGED active_camera
    /\ last_op' = LoopOp(t, "get_camera")
    /\ AppStep
    /\ UNCHANGED detectorfields
    /\ UNCHANGED <<tracking_thread, control>>

\* _tracking_loop, lines 139-142: start_detection and the two counters
LoopStartDetection(t) ==
    /\ loop[t].pc = "start"
    /\ StartDetection(loop[t].camera)
    /\ loop' = [loop EXCEPT ![t].pc = "check", ![t].failed_frames = 0]
    /\ last_op' = LoopOp(t, "start_detection")
    /\ AppStep
    /\ UNCHANGED <<is_tracking, active_camera, tracking_thread, control>>

\* _tracking_loop, line 144: while self.is_tracking
LoopCheck(t) ==
    /\ loop[t].pc = "check"
    /\ loop' = [loop EXCEPT ![t].pc = IF is_tracking THEN "read"
                                      ELSE "release"]
    /\ last_op' = LoopOp(t, "check")
    /\ AppStep
    /\ UNCHANGED detectorfields
    /\ UNCHANGED <<is_tracking, active_camera, tracking_thread, control>>

\* _tracking_loop, lines 147-157: camera.read(); answers: whether the device
\* delivers a frame (a camera that has been released delivers none)
LoopRead(t, answers) ==
    LET ok == answers /\ active_camera = loop[t].camera
        failed_frames == loop[t].failed_frames + 1
    IN  /\ loop[t].pc = "read"
        /\ loop' = IF ok
                   THEN [loop EXCEPT ![t].pc = "process",
                                     ![t].failed_frames = 0]
                   ELSE [loop EXCEPT ![t].pc =
                                         IF TooManyFailures(failed_frames)
                                         THEN "release" ELSE "check",
                                     ![t].failed_frames = failed_frames]
        /\ last_op' = [LoopOp(t, "read") EXCEPT !.step =
                           IF ok THEN "read" ELSE "read_failed"]
        /\ AppStep
        /\ UNCHANGED detectorfields
        /\ UNCHANGED <<is_tracking, active_camera, tracking_thread, control>>

\* _tracking_loop, lines 160-185: the frame is handed to process_frame; an
\* exception is caught and logged; either way the loop goes on
LoopProcess(t) ==
    /\ loop[t].pc = "process"
    /\ loop' = [loop EXCEPT ![t].pc = "check"]
    /\ last_op' = LoopOp(t, "process_frame")
    /\ AppStep
    /\ UNCHANGED detectorfields
    /\ UNCHANGED <<is_tracking, active_camera, tracking_thread, control>>

\* _tracking_loop, line 191: camera_manager.release_camera()
LoopRelease(t) ==
    /\ loop[t].pc = "release"
    /\ active_camera' = None
    /\ loop' = [loop EXCEPT ![t].pc = "clear"]
    /\ last_op' = LoopOp(t, "release")
    /\ AppStep
    /\ UNCHANGED detectorfields
    /\ UNCHANGED <<is_tracking, tracking_thread, control>>

\* _tracking_loop, line 192: self.is_tracking = False
LoopClear(t) ==
    /\ loop[t].pc = "clear"
    /\ is_tracking' = FALSE
    /\ loop' = [loop EXCEPT ![t].pc = "broadcast"]
    /\ last_op' = LoopOp(t, "clear")
    /\ AppStep
    /\ UNCHANGED detectorfields
    /\ UNCHANGED <<active_camera, tracking_thread, control>>

\* _tracking_loop, line 194: broadcast_status_update(), and the thread ends
\* (its local variables end with it)
LoopBroadcast(t) ==
    /\ loop[t].pc = "broadcast"
    /\ loop' = [loop EXCEPT ![t] = [pc |-> "done", camera |-> None,
                                    failed_frames |-> 0]]
    /\ last_op' = LoopOp(t, "broadcast")
    /\ AppStep
    /\ UNCHANGED detectorfields
    /\ UNCHANGED <<is_tracking, active_camera, tracking_thread, control>>

\* a step of tracking thread t whose camera answers as it likes
LoopStep(t) ==
    \/ \E selected \in BOOLEAN : LoopGetCamera(t, selected)
    \/ LoopStartDetection(t)
    \/ LoopCheck(t)
    \/ \E answers \in BOOLEAN : LoopRead(t, answers)
    \/ LoopProcess(t)
    \/ LoopRelease(t)
    \/ LoopClear(t)
    \/ LoopBroadcast(t)

\* the tracking threads spawned so far
Spawned == {t \in LoopIds : loop[t].pc # "unborn"}

\* Every tracking thread ends within the 5 s that stop_tracking waits for
\* it, and reads may fail.
NextLoop ==
    \/ \E available \in BOOLEAN :
          /\ is_tracking \/ ~available
                         \/ Cardinality(Spawned) < MaxLoopSessions
          /\ StartTracking(available)
    \/ StopTrackingBegin
    \/ StopTrackingDetector
    \/ StopTrackingJoin(FALSE)
    \/ \E t \in LoopIds : LoopStep(t)

SpecLoop == Init /\ [][NextLoop]_vars

\* every tracking thread that can take a step eventually takes one
FairSpecLoop == SpecLoop /\ \A t \in LoopIds : WF_loop(LoopStep(t))

\* Sessions overlapping: stop_tracking may stop waiting for a thread that is
\* still in its iteration; every camera delivers frames until it is released.
NextTracking ==
    \/ StartTracking(TRUE)
    \/ StopTrackingBegin
    \/ StopTrackingDetector
    \/ StopTrackingJoin(TRUE)
    \/ \E t \in LoopIds : LoopGetCamera(t, TRUE)
    \/ \E t \in LoopIds : LoopStartDetection(t)
    \/ \E t \in LoopIds : LoopCheck(t)
    \/ \E t \in LoopIds : LoopRead(t, TRUE)
    \/ \E t \in LoopIds : LoopProcess(t)
    \/ \E t \in LoopIds : LoopRelease(t)
    \/ \E t \in LoopIds : LoopClear(t)
    \/ \E t \in LoopIds : LoopBroadcast(t)

SpecTracking == Init /\ [][NextTracking]_vars

\* ------------------------------------------- the helpers, called directly

\* A detector some frames and settings into its life: the windows empty or
\* one short of full, each setting either way.
InitUnits ==
    /\ variant = "mediapipe"
    /\ ncalls = 0
    /\ EAR_THRESHOLD \in ThresholdArgs
    /\ GLASSES_MODE \in BOOLEAN
    /\ use_adaptive_threshold \in BOOLEAN
    /\ blink_counter = 0
    /\ frame_counter = 0
    /\ open_frame_counter = 0
    /\ eyes_closed = FALSE
    /\ eyes_closed_start_time = None
    /\ \E filled \in BOOLEAN :
          /\ ear_history = IF filled THEN PrefilledEar ELSE <<>>
          /\ baseline_history = IF filled THEN PrefilledBaseline ELSE <<>>
          /\ baseline_ear = IF filled
                            THEN Rat(Sum(PrefilledBaseline),
                                     Len(PrefilledBaseline))
                            ELSE Rat(0, 1)
    /\ current_ear = 0
    /\ session_id = None
    /\ CVInit
    /\ db_blinks = 0
    /\ db_sessions = 0
    /\ not_visible_run = 0
    /\ ThreadInit
    /\ HealthInit(SetClock)
    /\ CONSECUTIVE_FRAMES = DefaultConsecutiveFramesMP
    /\ total_blinks = 0
    /\ last_blink_time = None
    /\ is_paused = FALSE
    /\ is_detecting = FALSE
    /\ session_start_time = None
    /\ ret = None
    /\ last_op = [op |-> "init"]

\* what a direct call of a helper leaves alone
UnitCall ==
    /\ ncalls < MaxUnitCalls
    /\ ncalls' = ncalls + 1
    /\ UNCHANGED <<healthvars, threadvars>>
    /\ UNCHANGED <<variant, mpconfig, automaton, blink_counter, session_id,
                   open_frame_counter, current_ear, cvvars, CONSECUTIVE_FRAMES,
                   total_blinks, last_blink_time, is_paused, is_detecting,
                   session_start_time, db_blinks, db_sessions,
                   not_visible_run>>

SmoothEarCall(ear) ==
    LET sm == smooth_ear(ear_history, ear)
    IN  /\ UnitCall
        /\ ear_history' = sm.history
        /\ ret' = sm.result
        /\ last_op' = [op |-> "smooth_ear", arg |-> ear,
                       history_before |-> ear_history]
        /\ UNCHANGED <<baseline_history, baseline_ear>>

UpdateBaselineCall(ear) ==
    LET bl == update_baseline(baseline_history, baseline_ear, ear,
                              use_adaptive_threshold, EAR_THRESHOLD)
    IN  /\ UnitCall
        /\ baseline_history' = bl.history
        /\ baseline_ear' = bl.baseline
        /\ ret' = None
        /\ last_op' = [op |-> "update_baseline", arg |-> ear,
                       history_before |-> baseline_history,
                       baseline_before |-> baseline_ear]
        /\ UNCHANGED ear_history

GetAdaptiveThresholdCall ==
    /\ UnitCall
    /\ ret' = get_adaptive_threshold(use_adaptive_threshold, baseline_ear,
                                     EAR_THRESHOLD, GLASSES_MODE)
    /\ last_op' = [op |-> "get_adaptive_threshold"]
    /\ UNCHANGED windows

CalculateEarCall(eye_landmarks) ==
    /\ UnitCall
    /\ ret' = calculate_ear(eye_landmarks)
    /\ last_op' = [op |-> "calculate_ear", arg |-> eye_landmarks]
    /\ UNCHANGED windows

NextUnits ==
    \/ \E eye_landmarks \in EyeLandmarks : CalculateEarCall(eye_landmarks)
    \/ \E ear \in EarValues : SmoothEarCall(ear)
    \/ \E ear \in BaselineSamples : UpdateBaselineCall(ear)
    \/ GetAdaptiveThresholdCall

SpecUnits == InitUnits /\ [][NextUnits]_vars

\* ------------------------------------------------------------ properties

\* the last call was process_frame of the EAR detector
MPFrame == variant = "mediapipe" /\ last_op.op = "process_frame"

\* ... and it found a face and ran the blink detection logic
MPFaceFrame == MPFrame /\ last_op.outcome = "face"

\* ... with the smoothed EAR at or above the threshold of that frame
MPOpenFrame ==
    MPFaceFrame /\ last_op.ear * last_op.threshold.den >= last_op.threshold.num

\* ... while the automaton was CLOSED: the frame that ends a closure
ReopeningFrame == MPOpenFrame /\ last_op.was_closed

\* C1: on a frame at or above the threshold while CLOSED, a blink is counted
\* if and only if 30 <= frame time - closedSince <= 500 (ms) and the closed
\* frame count is at least CONSECUTIVE_FRAMES; exactly 30 and exactly 500
\* count, 10 and 600 never do.
C1_BlinkIffValid ==
    ReopeningFrame =>
        LET d == Val(last_op.duration)
            enough == last_op.frames >= CONSECUTIVE_FRAMES
            counted == blink_counter = last_op.blinks_before + 1
        IN  /\ counted <=> (30 <= d /\ d <= 500 /\ enough)
            /\ (d \in {30, 500} /\ enough => counted)
            /\ (d \in {10, 600} => ~counted)

\* a closure of exactly 500 ms has just been counted
C1_Witness ==
    /\ ReopeningFrame
    /\ last_op.duration = Some(500)
    /\ blink_counter = last_op.blinks_before + 1

\* C2: a processed frame changes blink_counter and total_blinks only when it
\* takes the automaton from CLOSED to OPEN, and then by exactly 1 each; a
\* closure of 150 ms with CONSECUTIVE_FRAMES = 1 is counted; no other frame
\* changes a counter.
C2_CountedOnceOnReopening ==
    MPFrame =>
        LET session == blink_counter - last_op.blinks_before
            total == total_blinks - last_op.total_before
        IN  /\ session = total
            /\ session \in {0, 1}
            /\ (session = 1 => ReopeningFrame)
            /\ (ReopeningFrame /\ last_op.duration = Some(150)
                  /\ CONSECUTIVE_FRAMES = 1 => session = 1)

\* a closure of 150 ms has just produced its one blink
C2_Witness ==
    /\ ReopeningFrame
    /\ last_op.duration = Some(150)
    /\ CONSECUTIVE_FRAMES = 1
    /\ blink_counter = last_op.blinks_before + 1
    /\ total_blinks = last_op.total_before + 1

\* C3: after every frame at or above the threshold the automaton is OPEN
\* with no closure start and a closed frame count of 0, the closure accepted
\* or not; in every state OPEN implies eyes_closed_start_time is None and
\* frame_counter = 0, and CLOSED implies eyes_closed_start_time is set.
C3_OpenMeansReset ==
    /\ ~eyes_closed => eyes_closed_start_time = None /\ frame_counter = 0
    /\ eyes_closed => eyes_closed_start_time # None
    /\ MPOpenFrame => ~eyes_closed

\* a closure of 600 ms has just been discarded
C3_Witness ==
    /\ ReopeningFrame
    /\ last_op.duration = Some(600)
    /\ blink_counter = last_op.blinks_before
    /\ ~eyes_closed
    /\ eyes_closed_start_time = None
    /\ frame_counter = 0

\* C4: get_adaptive_threshold returns the static EAR_THRESHOLD when adaptive
\* mode is off or the baseline is 0, and otherwise baseline - drop clamped
\* to [0.15, 0.30], drop 0.06 in glasses mode and 0.08 otherwise; the
\* derived threshold is never above 0.30 nor below 0.15.
C4_ThresholdClamped ==
    last_op.op = "get_adaptive_threshold" =>
        LET drop == IF GLASSES_MODE THEN 60 ELSE 80
            d == baseline_ear.den
            n == baseline_ear.num - drop * d
        IN  IF ~use_adaptive_threshold \/ baseline_ear.num = 0
            THEN ret.num = EAR_THRESHOLD * ret.den
            ELSE /\ 150 * ret.den <= ret.num
                 /\ ret.num <= 300 * ret.den
                 /\ (n < 150 * d => ret.num = 150 * ret.den)
                 /\ (n > 300 * d => ret.num = 300 * ret.den)
                 /\ (150 * d <= n /\ n <= 300 * d => ret.num * d = n * ret.den)

\* the threshold derived from a baseline of 1.0 is 0.30
C4_Witness ==
    /\ last_op.op = "get_adaptive_threshold"
    /\ use_adaptive_threshold
    /\ baseline_ear.num = 1000 * baseline_ear.den
    /\ ret.num = 300 * ret.den

\* C5: the baseline window holds at most 30 values in arrival order, the
\* oldest evicted first; update_baseline appends a sample only when it
\* exceeds the static threshold; baseline_ear is the mean of a non-empty
\* window and 0 while the window was never filled; with adaptive
\* thresholding off update_baseline changes neither.
C5_BaselineWindow ==
    /\ Len(baseline_history) <= 30
    /\ baseline_history = <<>> => baseline_ear.num = 0
    /\ baseline_history # <<>> =>
          baseline_ear.num * Len(baseline_history)
             = Sum(baseline_history) * baseline_ear.den
    /\ last_op.op = "update_baseline" =>
          LET appended == Append(last_op.history_before, last_op.arg)
          IN  IF use_adaptive_threshold /\ last_op.arg > EAR_THRESHOLD
              THEN baseline_history =
                      IF Len(appended) > 30
                      THEN SubSeq(appended, 2, Len(appended)) ELSE appended
              ELSE /\ baseline_history = last_op.history_before
                   /\ baseline_ear = last_op.baseline_before

\* a sample has just entered a full window and the oldest one has left
C5_Witness ==
    /\ last_op.op = "update_baseline"
    /\ Len(last_op.history_before) = 30
    /\ Len(baseline_history) = 30
    /\ baseline_history # last_op.history_before
    /\ baseline_history[30] = last_op.arg

\* C6: whenever a frame appends a sample to the baseline window, the same
\* frame is judged eyes-open (smoothed EAR at or above the threshold used
\* for that frame's open/closed decision).
C6_SampledOnlyWhenOpen ==
    (MPFaceFrame /\ last_op.sampled) => MPOpenFrame

\* C7: the smoothing window holds at most 3 values, the most recent ones in
\* arrival order, and smooth_ear returns the mean of the window after the new
\* sample was appended.
C7_SmoothingWindow ==
    /\ Len(ear_history) <= 3
    /\ last_op.op = "smooth_ear" =>
          LET appended == Append(last_op.history_before, last_op.arg)
              n == Len(appended)
          IN  /\ ear_history = IF n > 3 THEN SubSeq(appended, n - 2, n)
                               ELSE appended
              /\ ret * Len(ear_history) = Sum(ear_history)

\* a sample has just entered a full smoothing window
C7_Witness ==
    /\ last_op.op = "smooth_ear"
    /\ Len(last_op.history_before) = 3
    /\ Len(ear_history) = 3
    /\ ear_history[3] = last_op.arg
    /\ ear_history[1] = last_op.history_before[2]

\* C8: a frame in which no face is found sets current_ear to 0 and leaves
\* the automaton, the smoothing window, the baseline window and baseline and
\* both blink counters as they were (a stored timestamp only ages by the
\* time between the frames).
C8_NoFaceHoldsState ==
    [][(variant = "mediapipe" /\ last_op'.op = "process_frame"
          /\ last_op'.outcome = "noface") =>
          /\ current_ear' = 0
          /\ UNCHANGED <<eyes_closed, frame_counter, ear_history,
                         baseline_history, baseline_ear, blink_counter,
                         total_blinks>>
          /\ \E gap \in FrameGaps :
                /\ eyes_closed_start_time' =
                      Elapse(eyes_closed_start_time, gap)
                /\ last_blink_time' = Elapse(last_blink_time, gap)]_vars

\* no face was found in a frame offered during a closure, after frames that
\* filled the windows
C8_Witness ==
    /\ MPFrame
    /\ last_op.outcome = "noface"
    /\ eyes_closed
    /\ frame_counter > 0
    /\ ear_history # <<>>
    /\ baseline_history # <<>>
    /\ current_ear = 0

\* C9: while paused, process_frame of either detector registers no blink
\* and changes no blink counter and no automaton state; pause and resume
\* themselves leave them alone, so processing resumes from the state held
\* at pause.
C9_PausedFramesIgnored ==
    [][/\ (is_paused /\ last_op'.op = "process_frame") =>
            /\ UNCHANGED <<eyes_closed, frame_counter, blink_counter,
                           total_blinks, ear_history, baseline_history,
                           baseline_ear, frames_without_eyes,
                           frames_with_eyes, prev_eye_detected, db_blinks>>
            /\ stats'.session_blinks = stats.session_blinks
            /\ stats'.total_blinks = stats.total_blinks
            /\ \E gap \in FrameGaps :
                  /\ eyes_closed_start_time' =
                        Elapse(eyes_closed_start_time, gap)
                  /\ last_blink_time' = Elapse(last_blink_time, gap)
       /\ (last_op'.op \in {"pause", "resume"}) =>
            UNCHANGED <<automaton, blink_counter, total_blinks,
                        last_blink_time, ear_history, baseline_history,
                        baseline_ear, frames_without_eyes, frames_with_eyes,
                        prev_eye_detected, stats, db_blinks>>]_vars

\* a frame was offered to a detector paused in the middle of a closure
C9_Witness ==
    /\ MPFrame
    /\ last_op.outcome = "paused"
    /\ is_paused
    /\ eyes_closed
    /\ frame_counter > 0

\* C10: frames_without_eyes is the length of the current run of not-visible
\* frames (reset on the visible to not-visible edge, one more per
\* not-visible frame); on the not-visible to visible edge a blink is
\* registered if and only if it is at least CONSECUTIVE_FRAMES; it is 0
\* after every visible frame.
C10_RunLengthDecidesBlink ==
    variant = "opencv" =>
        /\ frames_without_eyes = not_visible_run
        /\ (last_op.op = "process_frame" /\ last_op.outcome = "frame") =>
              IF last_op.eyes
              THEN /\ frames_without_eyes = 0
                   /\ ~last_op.was_visible =>
                         /\ last_op.without = last_op.run
                         /\ (total_blinks = last_op.total_before + 1)
                               <=> (last_op.run >= CONSECUTIVE_FRAMES)
                         /\ total_blinks \in {last_op.total_before,
                                              last_op.total_before + 1}
              ELSE /\ frames_without_eyes = last_op.run + 1
                   /\ last_op.was_visible => frames_without_eyes = 1
                   /\ total_blinks = last_op.total_before

\* eyes came back after exactly CONSECUTIVE_FRAMES = 2 frames without them and
\* the blink was registered
C10_Witness ==
    /\ variant = "opencv"
    /\ last_op.op = "process_frame"
    /\ last_op.outcome = "frame"
    /\ last_op.eyes
    /\ ~last_op.was_visible
    /\ last_op.run = 2
    /\ CONSECUTIVE_FRAMES = 2
    /\ total_blinks = last_op.total_before + 1

\* C11: set_consecutive_frames(n) of either detector with n outside [1, 10]
\* reports failure and leaves CONSECUTIVE_FRAMES as it was; with n inside
\* it reports success and sets CONSECUTIVE_FRAMES = n; CONSECUTIVE_FRAMES
\* is always in [1, 10].
C11_FramesSetterValidates ==
    /\ CONSECUTIVE_FRAMES \in 1..10
    /\ last_op.op = "set_consecutive_frames" =>
          IF last_op.arg \in 1..10
          THEN last_op.result = "True" /\ CONSECUTIVE_FRAMES = last_op.arg
          ELSE last_op.result = "False"
                  /\ CONSECUTIVE_FRAMES = last_op.before

\* C12: a threshold setter given a value outside (0, 1) reports failure and
\* leaves the configured threshold as it was; a value inside is accepted
\* and reported as success.
C12_ThresholdSetterValidates ==
    last_op.op \in {"set_threshold", "set_ear_threshold"} =>
        IF 0 < last_op.arg /\ last_op.arg < 1000
        THEN last_op.result = "True"
        ELSE /\ last_op.result = "False"
             /\ variant = "mediapipe" => EAR_THRESHOLD = last_op.before
             /\ variant = "opencv" => BLINK_THRESHOLD = last_op.before

\* C13: analyze_blink_pattern returns the first match of the cascade
\* 0 < bpm < 8 CRITICAL 'critical'; 0 < bpm < 12 WARNING 'warning'; bpm > 30
\* ALERT 'alert'; bpm > 20 INFO 'elevated'; duration >= 120 min CRITICAL
\* 'extended_work'; duration >= 60 min INFO 'break_reminder'; else none.  The
\* boundaries are exact, and the call leaves the cooldown map as it was.
C13_CascadeFirstMatch ==
    last_op.op = "analyze_blink_pattern" =>
        LET b == last_op.bpm
            d == last_op.seconds
            got == last_op.insight
            is(status, level) ==
                got = <<[status |-> status, level |-> level]>>
        IN  /\ IF 0 < b /\ b < 8 THEN is("critical", "CRITICAL")
               ELSE IF 0 < b /\ b < 12 THEN is("warning", "WARNING")
               ELSE IF b > 30 THEN is("alert", "ALERT")
               ELSE IF b > 20 THEN is("elevated", "INFO")
               ELSE IF d >= 7200 THEN is("extended_work", "CRITICAL")
               ELSE IF d >= 3600 THEN is("break_reminder", "INFO")
               ELSE got = <<>>
            /\ b = 8 => is("warning", "WARNING")
            /\ b = 30 => is("elevated", "INFO")
            /\ (b \in {0, 12, 20} /\ d < 3600) => got = <<>>
            /\ (b \in {0, 12, 20} /\ d = 3600) => is("break_reminder", "INFO")
            /\ (b \in {0, 12, 20} /\ d = 7200) => is("extended_work", "CRITICAL")
            /\ ret = got
            /\ last_alert_time = last_op.map_before

\* 16 blinks per minute after 4000 s gave the break reminder, and the
\* cooldown map still holds its entry
C13_Witness ==
    /\ last_op.op = "analyze_blink_pattern"
    /\ last_op.bpm = 16
    /\ last_op.seconds = 4000
    /\ last_op.insight = <<[status |-> "break_reminder", level |-> "INFO"]>>
    /\ DOMAIN last_alert_time = {"critical"}

\* C14: whenever 0 < bpm < 12 or bpm > 20 a rate insight is returned
\* whatever the duration (bpm = 5 is CRITICAL 'critical' even at 120
\* minutes), and a duration insight is returned only when bpm <= 0 or
\* 12 <= bpm <= 20.
C14_RateBeforeDuration ==
    last_op.op = "analyze_blink_pattern" =>
        LET b == last_op.bpm
            got == last_op.insight
        IN  /\ ((0 < b /\ b < 12) \/ b > 20) =>
                  /\ got # <<>>
                  /\ got[1].status \in
                        {"critical", "warning", "alert", "elevated"}
            /\ b = 5 => got = <<[status |-> "critical", level |-> "CRITICAL"]>>
            /\ (got # <<>>
                  /\ got[1].status \in {"extended_work", "break_reminder"})
                  => (b <= 0 \/ (12 <= b /\ b <= 20))

\* 5 blinks per minute at 120 minutes gave the rate insight
C14_Witness ==
    /\ last_op.op = "analyze_blink_pattern"
    /\ last_op.bpm = 5
    /\ last_op.seconds = 7200
    /\ last_op.insight = <<[status |-> "critical", level |-> "CRITICAL"]>>

\* C15: should_show_alert(tag) returns true and records now for the tag
\* exactly when the tag has never fired or more than 300 s have passed since
\* it last fired (exactly 300 s is not enough); otherwise it returns false
\* and changes nothing.  The first call for a tag returns true at any clock
\* reading.
C15_GateFiresWhenDue ==
    last_op.op = "should_show_alert" =>
        LET tag == last_op.tag
            before == last_op.map_before
            due == tag \notin DOMAIN before
                      \/ last_op.now - before[tag] > 300
        IN  /\ last_op.result <=> due
            /\ due => /\ tag \in DOMAIN last_alert_time
                      /\ last_alert_time[tag] = last_op.now
            /\ ~due => last_alert_time = before

\* C16: a should_show_alert call for one tag neither reads nor changes the
\* entry of any other tag: the other entries stay as they were and the
\* result is decided by the tag's own entry alone.
C16_CooldownPerTag ==
    [][last_op'.op = "should_show_alert" =>
          LET tag == last_op'.tag
              own == IF tag \in DOMAIN last_alert_time
                     THEN last_alert_time[tag] ELSE 0
              others == (DOMAIN last_alert_time \cup DOMAIN last_alert_time')
                           \ {tag}
          IN  /\ \A other \in others :
                    /\ other \in DOMAIN last_alert_time
                    /\ other \in DOMAIN last_alert_time'
                    /\ last_alert_time'[other] = last_alert_time[other]
              /\ last_op'.result <=> (health_clock' - own > 300)]_vars

\* a tag has just fired less than 300 s after another tag fired
C16_Witness ==
    /\ last_op.op = "should_show_alert"
    /\ last_op.result
    /\ \E other \in DOMAIN last_alert_time :
          /\ other # last_op.tag
          /\ last_op.now - last_alert_time[other] < 300

\* C17: with a clock that never goes back, the timestamp recorded for a tag
\* never decreases and an entry once created is never removed.
C17_LastFiredMonotone ==
    [][\A tag \in DOMAIN last_alert_time :
          /\ tag \in DOMAIN last_alert_time'
          /\ last_alert_time'[tag] >= last_alert_time[tag]]_vars

\* a tag has fired for the second time while another tag's entry is kept
C17_Witness ==
    /\ last_op.op = "should_show_alert"
    /\ last_op.result
    /\ last_op.tag \in DOMAIN last_op.map_before
    /\ last_alert_time[last_op.tag] > last_op.map_before[last_op.tag]

\* C18: no interleaving of two concurrent health checks lets both see the
\* same tag as not yet fired: two notifications carrying the same tag are
\* always more than 300 s apart.
C18_NoDoubleFire ==
    \A i, j \in DOMAIN notifications :
        (i < j /\ notifications[i].status = notifications[j].status) =>
            notifications[j].at - notifications[i].at > 300

\* C19: a health check hands an insight to the notifier only if the analysis
\* returned one and should_show_alert returned true for its status; two
\* notifications with the same status are more than 300 s apart; a check
\* whose analysis returns none delivers nothing and leaves the cooldown map
\* as it was.
C19_NotificationsGated ==
    /\ \A i, j \in DOMAIN notifications :
          (i < j /\ notifications[i].status = notifications[j].status) =>
              notifications[j].at - notifications[i].at > 300
    /\ last_op.op = "check_health_insights" =>
          LET sent == Len(notifications) - last_op.sent_before
          IN  /\ sent \in {0, 1}
              /\ sent = 1 =>
                    /\ last_op.insight # <<>>
                    /\ last_op.result
                    /\ notifications[Len(notifications)] =
                          [status |-> last_op.insight[1].status,
                           at |-> last_op.now]
              /\ last_op.insight = <<>> =>
                    /\ sent = 0
                    /\ last_alert_time = last_op.map_before

\* the same status has been notified twice, 301 s apart, with a check in
\* between that the gate held back
C19_Witness ==
    /\ last_op.op = "check_health_insights"
    /\ Len(notifications) = 2
    /\ notifications[1].status = notifications[2].status
    /\ notifications[2].at - notifications[1].at = 301

\* C20: for each detector variant, start_detection resets the session blink
\* count to 0 and the session start time to now, and sets total_blinks to
\* the total held by the database, so that total_blinks never decreases
\* across a stop/start cycle.
C20_StartLoadsTotal ==
    last_op.op = "start_detection" =>
        /\ IF variant = "mediapipe" THEN blink_counter = 0
           ELSE stats.session_blinks = 0
        /\ session_start_time = <<0>>
        /\ total_blinks = db_blinks
        /\ total_blinks >= last_op.total_before

\* the session blink count of the detector in use
SessionBlinks ==
    IF variant = "mediapipe" THEN blink_counter ELSE stats.session_blinks

\* the last call was a process_frame that ran the blink detection logic and
\* accepted a blink
BlinkFrame ==
    /\ last_op.op = "process_frame"
    /\ last_op.outcome \in {"face", "frame"}
    /\ last_op.blink

\* C21: every blink accepted during a started session adds exactly 1 to the
\* session counter and 1 to the cumulative counter and is forwarded to the
\* database exactly once.
C21_BlinkCountedAndForwarded ==
    (BlinkFrame /\ is_detecting) =>
        /\ total_blinks = last_op.total_before + 1
        /\ SessionBlinks = (IF variant = "mediapipe" THEN last_op.blinks_before
                            ELSE last_op.session_before) + 1
        /\ last_op.forwarded = 1

\* C23: the first stop after a start asks the database to store (or end)
\* the session, once; a further stop with no start in between asks for
\* nothing.
C23_FinalizedOnce ==
    last_op.op \in {"stop", "stop_detection"} =>
        last_op.requests = IF last_op.was_detecting THEN 1 ELSE 0

\* C27: a failing database call is not fatal to detection: start_detection
\* leaves the session started and is_detecting true, an accepted blink adds
\* 1 to both counters whether or not it could be stored, and process_frame
\* never turns detection off, so later frames are processed as before.
C27_PersistenceFailureNonFatal ==
    [][/\ last_op'.op = "start_detection" =>
             /\ is_detecting'
             /\ session_start_time' = <<0>>
       /\ last_op'.op = "process_frame" =>
             /\ is_detecting' = is_detecting
             /\ is_paused' = is_paused
             /\ (last_op'.outcome \in {"face", "frame"} /\ last_op'.blink) =>
                   /\ total_blinks' = total_blinks + 1
                   /\ SessionBlinks' = SessionBlinks + 1]_vars

\* a blink whose INSERT failed has been counted, and detection is still on
C27_Witness ==
    /\ variant = "opencv"
    /\ BlinkFrame
    /\ ~last_op.db_ok
    /\ is_detecting
    /\ total_blinks = last_op.total_before + 1
    /\ stats.session_blinks = last_op.session_before + 1
    /\ db_blinks < stats.session_blinks

\* the last call was get_stats
StatsRead == last_op.op = "get_stats"

\* the duration and the rate of a snapshot
DurationAndRate(snapshot) ==
    <<snapshot.session_duration, snapshot.blinks_per_minute>>

\* C22: stop freezes the session duration: a get_stats made after stop has
\* returned, with no start_detection in between, reports the
\* session_duration and blinks_per_minute that held when stop returned,
\* however much time has passed.
C22_StopFreezesDuration ==
    [][(/\ last_op.op \in {"stop", "stop_detection", "get_stats"}
        /\ ~is_detecting
        /\ last_op'.op = "get_stats") =>
          DurationAndRate(last_op'.snapshot) =
              DurationAndRate(last_op.snapshot)]_vars

\* C24: two get_stats calls with no frame and no control call between them
\* return identical values even when time passes between them, and a
\* get_stats call changes no detector state.
C24_GetStatsIdempotent ==
    [][last_op'.op = "get_stats" =>
          /\ last_op.op = "get_stats" =>
                last_op'.snapshot =
                    IF variant = "mediapipe" THEN last_op.snapshot
                    ELSE [last_op.snapshot EXCEPT !.last_blink_time =
                              IF @ = <<>> THEN @
                              ELSE <<@[1] - last_op'.gap>>]
          /\ UNCHANGED <<mpconfig, eyes_closed, frame_counter, windows,
                         blink_counter, open_frame_counter, current_ear,
                         session_id, frames_without_eyes, frames_with_eyes,
                         prev_eye_detected, camera, BLINK_THRESHOLD,
                         CONSECUTIVE_FRAMES, total_blinks, is_paused,
                         is_detecting, db_blinks, db_sessions>>]_vars

\* C25: every snapshot returned by get_stats has blinks_per_minute =
\* session_blinks * 60 / session_duration for its own session_blinks and
\* session_duration (to the one decimal the EAR detector rounds to), and
\* blinks_per_minute = 0 when session_duration is 0.
C25_RateMatchesSnapshot ==
    StatsRead =>
        LET snapshot == last_op.snapshot
            blinks == snapshot.session_blinks
            duration == snapshot.session_duration
            rate == snapshot.blinks_per_minute
        IN  IF variant = "mediapipe"
            THEN IF duration = 0 THEN rate = 0
                 ELSE LET off == rate * duration - blinks * 600
                      IN  2 * off <= duration /\ -2 * off <= duration
            ELSE IF duration = 0 THEN rate.num = 0
                 ELSE rate.num * duration = blinks * 60 * 1000 * rate.den

\* C28: no exception leaves process_frame of either detector: a failure of
\* the landmark or eye-presence oracle shows as a return value or a state
\* change.
C28_NoExceptionFromProcessFrame ==
    last_op.op = "process_frame" => last_op.outcome # "raised"

\* C26: a status query running while a frame is processed never returns a
\* partially updated snapshot: every snapshot shows the counters of a state
\* between two processed frames, never the session count already incremented
\* for a blink and the total not yet (or the reverse).  Both counters start
\* at 0 and a blink adds 1 to each, so between frames they are equal.
C26_SnapshotNeverTorn ==
    (last_op.op = "get_stats" /\ last_op.returned) =>
        last_op.snapshot.session_blinks = last_op.snapshot.total_blinks

\* the distances of the landmarks given to the last calculate_ear call
HorizontalDistance == norm(last_op.arg[1], last_op.arg[4])
VerticalDistances ==
    norm(last_op.arg[2], last_op.arg[6]) + norm(last_op.arg[3], last_op.arg[5])

\* C29: calculate_ear returns exactly 0 when the distance between points 0
\* and 3 is 0, whatever the vertical distances, with no division by zero;
\* otherwise it returns (|p1-p5| + |p2-p4|) / (2 * |p0-p3|), which is 0 when
\* both vertical pairs are collapsed.
C29_CalculateEar ==
    last_op.op = "calculate_ear" =>
        /\ ret.den # 0
        /\ HorizontalDistance = 0 => ret = Rat(0, 1)
        /\ HorizontalDistance # 0 =>
              /\ ret.num * 2 * HorizontalDistance = VerticalDistances * ret.den
              /\ VerticalDistances = 0 => ret.num = 0

\* the eye corners coincide, the lids are apart, and the result is 0
C29_Witness ==
    /\ last_op.op = "calculate_ear"
    /\ HorizontalDistance = 0
    /\ VerticalDistances = 8
    /\ ret = Rat(0, 1)

\* the last call was a frame of the EAR detector below the threshold that
\* arrived in OPEN / arrived in CLOSED
ClosingFrame == MPFaceFrame /\ last_op.closed /\ ~last_op.was_closed
StayingClosedFrame == MPFaceFrame /\ last_op.closed /\ last_op.was_closed

\* what a below-threshold frame does in either state, but for the count
\* left by the frame that closes the eyes
ClosureSteps ==
    /\ ClosingFrame' =>
          /\ eyes_closed'
          /\ eyes_closed_start_time' = Some(Now)
    /\ StayingClosedFrame' =>
          /\ eyes_closed'
          /\ frame_counter' = frame_counter + 1
          /\ eyes_closed_start_time' = Some(Now - Val(last_op'.duration))

\* C30 as stated: the frame that closes the eyes resets the closed-frame
\* count to 0 and is not itself counted, so a closure of k below-threshold
\* frames is compared at k - 1 when the eyes reopen (0 for a closure of one
\* frame).
C30_TransitionFrameNotCounted ==
    [][/\ ClosureSteps
       /\ ClosingFrame' => frame_counter' = 0
       /\ (ClosingFrame /\ ReopeningFrame') => last_op'.frames = 0]_vars

\* C30, amended: a below-threshold frame arriving in OPEN moves the automaton
\* to CLOSED, records closedSince = that frame's time and leaves the
\* closed-frame count at 1 (it is the open-frame count that is reset to 0);
\* each further below-threshold frame while CLOSED adds exactly 1 and leaves
\* closedSince unchanged; nothing else changes the count, which is 0 while
\* OPEN.  So a closure of k below-threshold frames is compared at k when the
\* eyes reopen.
C30_TransitionFrameCounted ==
    [][/\ ClosureSteps
       /\ ClosingFrame' =>
             /\ frame_counter = 0
             /\ frame_counter' = 1
             /\ open_frame_counter' = 0
       /\ ReopeningFrame' => last_op'.frames = frame_counter
       /\ (ClosingFrame /\ ReopeningFrame') => last_op'.frames = 1
       /\ ~(ClosingFrame' \/ StayingClosedFrame' \/ ReopeningFrame') =>
             frame_counter' = frame_counter
       /\ ~eyes_closed' => frame_counter' = 0]_vars

\* the eyes have reopened after a closure of two below-threshold frames, and
\* the count compared was 2
C30_Witness ==
    /\ ReopeningFrame
    /\ last_op.frames = 2
    /\ frame_counter = 0

\* C31: while no session is started (before the first start_detection, and
\* between a stop and the next start_detection) no process_frame call changes
\* the session count or the total count or forwards a blink to the database.
C31_NoCountingWhileStopped ==
    [][(last_op'.op = "process_frame" /\ ~is_detecting) =>
          /\ total_blinks' = total_blinks
          /\ SessionBlinks' = SessionBlinks
          /\ db_blinks' = db_blinks
          /\ "forwarded" \in DOMAIN last_op' => last_op'.forwarded = 0]_vars

\* C36: a new session starts unpaused: right after start_detection returns,
\* is_paused is false whatever calls came before.
C36_StartsUnpaused ==
    last_op.op = "start_detection" => ~is_paused

\* C37: the presence detector registers a blink only on a processed frame
\* with eyes visible whose preceding processed frame had eyes not visible,
\* whatever CONSECUTIVE_FRAMES it was constructed with or set to.
C37_BlinkOnlyAfterNotVisible ==
    (variant = "opencv" /\ BlinkFrame) =>
        /\ last_op.eyes
        /\ ~last_op.was_visible
        /\ last_op.run >= 1

\* the status of the rate rule analyze_blink_pattern matches for a blink
\* rate (the session too short for a duration rule), "none" if none does
RateRule(bpm) ==
    LET insight == analyze_blink_pattern(bpm, 0)
    IN  IF insight = None THEN "none" ELSE Val(insight).status

\* the interpretation agrees with the rate rules of analyze_blink_pattern
BandsAgree(bpm, category) ==
    /\ category = "Severely Low" <=> RateRule(bpm) = "critical"
    /\ category = "Below Normal" <=> RateRule(bpm) = "warning"
    /\ category = "Elevated" <=> RateRule(bpm) = "elevated"
    /\ category = "Very High" <=> RateRule(bpm) = "alert"
    /\ category \in {"Normal", "No Data"} <=> RateRule(bpm) = "none"

\* C39: get_blink_rate_interpretation agrees with analyze_blink_pattern on
\* the rate bands for every bpm, and each of the seven categories it defines,
\* 'Slightly Elevated' included, is returned for some bpm.
C39_InterpretationAgrees ==
    /\ last_op.op = "get_blink_rate_interpretation" =>
          BandsAgree(last_op.bpm, last_op.category)
    /\ \A category \in Categories :
          \E bpm \in BpmValues : get_blink_rate_interpretation(bpm) = category

\* the agreement alone, and the category no blink rate is given
C39_BandsAgreeOnly ==
    last_op.op = "get_blink_rate_interpretation" =>
        /\ BandsAgree(last_op.bpm, last_op.category)
        /\ last_op.category # "Slightly Elevated"

\* C38: a cooldown is consumed only by a notification that was shown: when a
\* health check passed the gate for a tag but the notifier showed nothing,
\* the next health check producing the same tag passes the gate again.
C38_CooldownOnlyIfShown ==
    [][(/\ last_op.op = "check_health_insights"
        /\ last_op.result
        /\ ~last_op.shown
        /\ last_op'.op = "check_health_insights"
        /\ last_op'.insight = last_op.insight) => last_op'.result]_vars

\* what the statements of _tracking_loop do to the failure count and, at the
\* end of the thread, to the camera and the flag
LoopSteps ==
    \A t \in LoopIds :
        /\ (loop[t].pc = "read" /\ loop'[t].pc = "process") =>
              loop'[t].failed_frames = 0
        /\ (loop[t].pc = "read" /\ loop'[t].pc # "process"
                                /\ loop'[t] # loop[t]) =>
              loop'[t].failed_frames = loop[t].failed_frames + 1
        /\ (loop[t].pc \notin {"read", "start", "broadcast"}) =>
              loop'[t].failed_frames = loop[t].failed_frames
        /\ (loop[t].pc \in {"check", "read"} /\ loop'[t].pc = "release") =>
              \/ loop[t].pc = "check" /\ ~is_tracking
              \/ /\ loop[t].pc = "read"
                 /\ loop'[t].failed_frames = MaxFailedFrames + 1
        /\ (loop[t].pc = "read" /\ loop'[t].pc = "check") =>
              loop'[t].failed_frames <= MaxFailedFrames
        /\ (loop[t].pc = "release" /\ loop'[t].pc # "release") =>
              loop'[t].pc = "clear" /\ active_camera' = None
        /\ (loop[t].pc = "clear" /\ loop'[t].pc # "clear") =>
              loop'[t].pc = "broadcast" /\ ~is_tracking'
        /\ (loop[t].pc = "broadcast" /\ loop'[t].pc # "broadcast") =>
              loop'[t].pc = "done"
        /\ (loop'[t].pc = "clear" /\ loop[t].pc # "clear") =>
              loop[t].pc = "release"
        /\ (loop'[t].pc = "broadcast" /\ loop[t].pc # "broadcast") =>
              loop[t].pc = "clear"
        /\ (loop'[t].pc = "done" /\ loop[t].pc # "done") =>
              loop[t].pc = "broadcast"
        /\ (loop[t].pc \notin {"unborn", "done", "release", "clear",
                               "broadcast"}
               /\ loop'[t].pc \notin {"get_camera", "start", "check", "read",
                                      "process"}) =>
              loop'[t].pc = "release"

\* C32: a tracking loop that is still wanted (is_tracking true) leaves its
\* loop only on the 31st failed read in a row; a successful read puts the
\* failure count back to 0; a loop whose reads all fail from some point on
\* terminates; and a thread reaches its end only through releasing the
\* camera, setting is_tracking to false and broadcasting a status update.
C32_FailedReadsEndTracking ==
    /\ [][LoopSteps]_vars
    /\ \A t \in LoopIds :
          (loop[t].pc = "read") ~> (loop[t].pc \in {"process", "done"})

\* a tracking thread has terminated after 31 failed reads in a row, with no
\* stop_tracking call: the camera is released and is_tracking is false
C32_Witness ==
    /\ last_op.op = "tracking_loop"
    /\ last_op.step = "broadcast"
    /\ loop[last_op.thread].pc = "done"
    /\ last_op.failed_before = MaxFailedFrames + 1
    /\ control = "started"
    /\ active_camera = None
    /\ ~is_tracking

\* C33: at most one tracking loop at any time: start_tracking returns False
\* and spawns nothing while is_tracking is true; there are never two live
\* tracking threads; and a thread's exit never releases the camera or
\* clears is_tracking while a thread of a newer session is live.
C33_OneTrackingLoop ==
    /\ Cardinality(LiveLoops) <= 1
    /\ (last_op.op = "start_tracking" /\ last_op.was_tracking) =>
          ~last_op.result /\ last_op.spawned = None
    /\ (last_op.op = "tracking_loop"
           /\ last_op.step \in {"release", "clear"}) =>
          ~last_op.newer_session

\* C34: once stop_tracking has returned True and every tracking thread has
\* terminated, the detector is not detecting (start_detection opens a
\* session and sets is_detecting, stop ends it and clears is_detecting).
C34_StoppedMeansNotDetecting ==
    (control = "stopped" /\ LiveLoops = {}) => ~is_detecting

\* C35: once a tracking loop has ended on its own (no stop_tracking call),
\* its thread has terminated and is_tracking is False, the detector is not
\* detecting either.
C35_LoopEndStopsDetector ==
    (/\ control = "started"
     /\ LiveLoops = {}
     /\ ~is_tracking) => ~is_detecting

====
